---- MODULE Spec2Model ----
(***************************************************************************)
(* A model of the C implementation of the YAJBE codec:                     *)
(*   - the in-memory byte sink and byte source (bytes-writer.c,            *)
(*     bytes-reader.c),                                                    *)
(*   - the value encoder and decoder (yajbe-encoder.c, yajbe-decoder.c),   *)
(*   - the field-name encoder and decoder (fields-encoder.c,               *)
(*     fields-decoder.c),                                                  *)
(* driven the way the tests and the demo drive them: a producer makes      *)
(* encoder calls on a fresh sink, then a consumer reads the produced bytes *)
(* with a fresh decoder.                                                   *)
(*                                                                         *)
(* 64-bit machine words (size_t, int64_t) are kept at their full width as  *)
(* four 16-bit limbs, least significant first, with arithmetic modulo      *)
(* 2^64.  Byte memories (the sink buffer, the name arena) are run-length   *)
(* sequences of cells, so that a buffer of several GiB is an ordinary      *)
(* value.  A cell that was never written holds Undef.                      *)
(***************************************************************************)
EXTENDS Integers, Sequences, FiniteSets, TLC

(***************************************************************************)
(* Bit operations on small non-negative integers.                          *)
(***************************************************************************)
RECURSIVE BitAnd(_, _)
BitAnd(a, b) ==
    IF a = 0 \/ b = 0 THEN 0
    ELSE (a % 2) * (b % 2) + 2 * BitAnd(a \div 2, b \div 2)

RECURSIVE BitOr(_, _)
BitOr(a, b) ==
    IF a = 0 THEN b
    ELSE IF b = 0 THEN a
    ELSE (IF a % 2 = 1 \/ b % 2 = 1 THEN 1 ELSE 0) + 2 * BitOr(a \div 2, b \div 2)

RECURSIVE BitXor(_, _)
BitXor(a, b) ==
    IF a = 0 THEN b
    ELSE IF b = 0 THEN a
    ELSE ((a + b) % 2) + 2 * BitXor(a \div 2, b \div 2)

RECURSIVE BitLen(_)
BitLen(x) == IF x = 0 THEN 0 ELSE 1 + BitLen(x \div 2)

Min(a, b) == IF a < b THEN a ELSE b

\* F applied to v: names a value that is computed once and used many times
Let(v, F(_)) == F(v)

(***************************************************************************)
(* 64-bit words: <<l1, l2, l3, l4>>, value l1 + 2^16 l2 + 2^32 l3 + 2^48 l4*)
(***************************************************************************)
B16 == 256 * 256

\* the word of a non-negative integer below 2^31
U(n) == <<n % B16, n \div B16, 0, 0>>

Zero64 == <<0, 0, 0, 0>>

Add64(a, b) ==
    LET s1 == a[1] + b[1]
        s2 == a[2] + b[2] + (s1 \div B16)
        s3 == a[3] + b[3] + (s2 \div B16)
        s4 == a[4] + b[4] + (s3 \div B16)
    IN  <<s1 % B16, s2 % B16, s3 % B16, s4 % B16>>

Not64(a) == <<B16 - 1 - a[1], B16 - 1 - a[2], B16 - 1 - a[3], B16 - 1 - a[4]>>

Neg64(a) == Add64(Not64(a), U(1))

Sub64(a, b) == Add64(a, Neg64(b))

\* unsigned comparison
Lt64(a, b) ==
    \/ a[4] < b[4]
    \/ a[4] = b[4] /\ a[3] < b[3]
    \/ a[4] = b[4] /\ a[3] = b[3] /\ a[2] < b[2]
    \/ a[4] = b[4] /\ a[3] = b[3] /\ a[2] = b[2] /\ a[1] < b[1]

Le64(a, b) == ~Lt64(b, a)

\* signed (two's complement) view
IsNeg64(a) == a[4] >= B16 \div 2

SLt64(a, b) == IF IsNeg64(a) # IsNeg64(b) THEN IsNeg64(a) ELSE Lt64(a, b)

SLe64(a, b) == ~SLt64(b, a)

\* the word of an int (a C int converted to size_t or int64_t)
I(n) == IF n >= 0 THEN U(n) ELSE Neg64(U(0 - n))

\* byte k (0 = least significant) of a word
ByteOf(a, k) == (a[(k \div 2) + 1] \div (IF k % 2 = 0 THEN 1 ELSE 256)) % 256

\* the word whose low bytes are the sequence bs (at most 8 bytes), the rest 0
WordOfBytes(bs) ==
    LET b(k) == IF k <= Len(bs) THEN bs[k] ELSE 0
    IN  <<b(1) + 256 * b(2), b(3) + 256 * b(4), b(5) + 256 * b(6), b(7) + 256 * b(8)>>

\* words that are small enough to be used as an integer of the model
IsSmall64(a) == a[3] = 0 /\ a[4] = 0 /\ a[2] < B16 \div 4

NatOf(a) == a[1] + B16 * a[2]

\* 64 - __builtin_clzll(a), for a # 0
BitLen64(a) ==
    IF a[4] # 0 THEN 48 + BitLen(a[4])
    ELSE IF a[3] # 0 THEN 32 + BitLen(a[3])
    ELSE IF a[2] # 0 THEN 16 + BitLen(a[2])
    ELSE BitLen(a[1])

(***************************************************************************)
(* Byte memories.  A memory is a sequence of runs [b, n]: n cells holding  *)
(* b, with n a non-zero word and neighbouring runs holding different b.    *)
(***************************************************************************)
Undef == 0 - 1

Run(b, n) == IF n = Zero64 THEN <<>> ELSE <<[b |-> b, n |-> n]>>

MemCat(r, s) ==
    IF r = <<>> THEN s
    ELSE IF s = <<>> THEN r
    ELSE IF r[Len(r)].b = s[1].b
         THEN SubSeq(r, 1, Len(r) - 1)
                \o <<[b |-> s[1].b, n |-> Add64(r[Len(r)].n, s[1].n)]>>
                \o Tail(s)
         ELSE r \o s

\* the recursions below halve the memory: their depth is the logarithm of
\* the number of runs
FirstHalf(r) == SubSeq(r, 1, Len(r) \div 2)

SecondHalf(r) == SubSeq(r, (Len(r) \div 2) + 1, Len(r))

RECURSIVE MemLen(_)
MemLen(r) ==
    IF r = <<>> THEN Zero64
    ELSE IF Len(r) = 1 THEN r[1].n
    ELSE Add64(MemLen(FirstHalf(r)), MemLen(SecondHalf(r)))

RECURSIVE MemOfSeq(_)
MemOfSeq(s) ==
    IF s = <<>> THEN <<>>
    ELSE IF Len(s) = 1 THEN Run(s[1], U(1))
    ELSE MemCat(MemOfSeq(FirstHalf(s)), MemOfSeq(SecondHalf(s)))

\* the first n cells
RECURSIVE MemTake(_, _)
MemTake(r, n) ==
    IF r = <<>> \/ n = Zero64 THEN <<>>
    ELSE IF Len(r) = 1
    THEN (IF Le64(r[1].n, n) THEN r ELSE <<[b |-> r[1].b, n |-> n]>>)
    ELSE Let(MemLen(FirstHalf(r)), LAMBDA half :
             IF Le64(n, half) THEN MemTake(FirstHalf(r), n)
             ELSE FirstHalf(r) \o MemTake(SecondHalf(r), Sub64(n, half)))

\* the cells after the first n
RECURSIVE MemDrop(_, _)
MemDrop(r, n) ==
    IF r = <<>> \/ n = Zero64 THEN r
    ELSE IF Len(r) = 1
    THEN (IF Le64(r[1].n, n) THEN <<>> ELSE <<[b |-> r[1].b, n |-> Sub64(r[1].n, n)]>>)
    ELSE Let(MemLen(FirstHalf(r)), LAMBDA half :
             IF Lt64(n, half) THEN MemDrop(FirstHalf(r), n) \o SecondHalf(r)
             ELSE MemDrop(SecondHalf(r), Sub64(n, half)))

\* the len cells at off; cells past the end of the memory read as Undef
MemRead(r, off, len) ==
    Let(MemTake(MemDrop(r, off), len),
        LAMBDA got : MemCat(got, Run(Undef, Sub64(len, MemLen(got)))))

\* the memory with data stored at off (the memory keeps its size)
MemWrite(r, off, data) ==
    MemCat(MemCat(MemTake(r, off), data), MemDrop(r, Add64(off, MemLen(data))))

\* the cells one by one (for memories of fewer than 2^32 cells)
RECURSIVE SeqOfMem(_)
SeqOfMem(r) ==
    IF r = <<>> THEN <<>>
    ELSE IF Len(r) = 1 THEN [i \in 1..NatOf(r[1].n) |-> r[1].b]
    ELSE SeqOfMem(FirstHalf(r)) \o SeqOfMem(SecondHalf(r))

\* a word computed from an uninitialised local: no word at all
UndefWord == <<Undef, Undef, Undef, Undef>>

\* what an operation stored through an out pointer
None == <<>>

Some(x) == <<x>>

\* the cell at off as an integer (Undef when never written)
MemAt(r, off) == MemRead(r, off, U(1))[1].b

(***************************************************************************)
(* Error codes (errno.h), as the sources use them.                         *)
(***************************************************************************)
ENOSPC == 28

EINVAL == 22

(***************************************************************************)
(* InMemory Bytes Writer: [buffer, bufsize, offset].                       *)
(* Each operation yields [r |-> return code, w |-> the writer afterwards]. *)
(***************************************************************************)
z_mem_bytes_writer_init_fixed(bufsize) ==
    [buffer |-> Run(Undef, bufsize), bufsize |-> bufsize, offset |-> Zero64]

__mem_bytes_writer_write_byte(self, v) ==
    IF Lt64(self.bufsize, Add64(self.offset, U(1)))
    THEN [r |-> 0 - ENOSPC, w |-> self]
    ELSE [r |-> 0,
          w |-> [self EXCEPT !.buffer = MemWrite(@, self.offset, Run(v % 256, U(1))),
                             !.offset = Add64(@, U(1))]]

\* value is a word, width a C int; the switch stores nothing unless 1 <= width <= 8
__mem_bytes_writer_write_uint(self, value, width) ==
    IF Lt64(self.bufsize, Add64(self.offset, I(width)))
    THEN [r |-> 0 - ENOSPC, w |-> self]
    ELSE LET data == IF width \in 1..8
                     THEN MemOfSeq([k \in 1..width |-> ByteOf(value, k - 1)])
                     ELSE <<>>
         IN  [r |-> 0,
              w |-> [self EXCEPT !.buffer = MemWrite(@, self.offset, data),
                                 !.offset = Add64(@, I(width))]]

\* buf is the caller's memory starting at the pointer passed, length a word
__mem_bytes_writer_write_bytes(self, buf, length) ==
    IF Lt64(self.bufsize, Add64(self.offset, length))
    THEN [r |-> 0 - ENOSPC, w |-> self]
    ELSE [r |-> 0,
          w |-> [self EXCEPT !.buffer = MemWrite(@, self.offset, MemRead(buf, Zero64, length)),
                             !.offset = Add64(@, length)]]

(***************************************************************************)
(* InMemory Bytes Reader: [buffer, bufsize, offset].                       *)
(* Each operation yields [r, rd |-> the reader afterwards, v |-> what was  *)
(* stored through the out pointer]; on failure nothing is stored and v is  *)
(* Undef: the caller's variable keeps whatever it held.                    *)
(***************************************************************************)
z_mem_bytes_reader_init(buffer, bufsize) ==
    [buffer |-> buffer, bufsize |-> bufsize, offset |-> Zero64]

__mem_bytes_reader_read_byte(self) ==
    IF Lt64(self.bufsize, Add64(self.offset, U(1)))
    THEN [r |-> 0 - ENOSPC, rd |-> self, v |-> Undef]
    ELSE [r |-> 0,
          rd |-> [self EXCEPT !.offset = Add64(@, U(1))],
          v |-> MemAt(self.buffer, self.offset) % 256]

\* the value read is a word; the switch gathers nothing unless 1 <= width <= 8
__mem_bytes_reader_read_uint(self, width) ==
    IF Lt64(self.bufsize, Add64(self.offset, I(width)))
    THEN [r |-> 0 - ENOSPC, rd |-> self, v |-> Undef]
    ELSE [r |-> 0,
          rd |-> [self EXCEPT !.offset = Add64(@, I(width))],
          v |-> IF width \in 1..8
                THEN WordOfBytes(SeqOfMem(MemRead(self.buffer, self.offset, U(width))))
                ELSE Zero64]

\* v is the memory copied into the caller's buffer
__mem_bytes_reader_read_bytes(self, length) ==
    IF Lt64(self.bufsize, Add64(self.offset, length))
    THEN [r |-> 0 - ENOSPC, rd |-> self, v |-> Undef]
    ELSE [r |-> 0,
          rd |-> [self EXCEPT !.offset = Add64(@, length)],
          v |-> MemRead(self.buffer, self.offset, length)]

\* v is the slice stored: the offset its buffer pointer has in the source, and its length
__mem_bytes_reader_read_slice(self, length) ==
    IF Lt64(self.bufsize, Add64(self.offset, length))
    THEN [r |-> 0 - ENOSPC, rd |-> self, v |-> Undef]
    ELSE [r |-> 0,
          rd |-> [self EXCEPT !.offset = Add64(@, length)],
          v |-> [buffer |-> self.offset, length |-> length]]

(***************************************************************************)
(* Token kinds (yajbe_item_type_t).                                        *)
(***************************************************************************)
YAJBE_NULL == 0

YAJBE_FALSE == 1

YAJBE_TRUE == 2

YAJBE_INT_SMALL == 3

YAJBE_INT_POSITIVE == 4

YAJBE_INT_NEGATIVE == 5

YAJBE_SMALL_STRING == 6

YAJBE_STRING == 7

YAJBE_ENUM_CONFIG == 8

YAJBE_ENUM_STRING == 9

YAJBE_SMALL_BYTES == 10

YAJBE_BYTES == 11

YAJBE_FLOAT_VLE == 12

YAJBE_FLOAT_32 == 13

YAJBE_FLOAT_64 == 14

YAJBE_BIG_DECIMAL == 15

YAJBE_ARRAY == 16

YAJBE_ARRAY_EOF == 17

YAJBE_OBJECT == 18

YAJBE_OBJECT_EOF == 19

YAJBE_EOF == 20

(***************************************************************************)
(* Value encoder (yajbe-encoder.c).  The encoder holds only its writer:    *)
(* each operation takes the writer and yields [r, w].                      *)
(***************************************************************************)
\* a variant that rounds the number of bits down before it adds a byte
__int_bytes_width_down(value) ==
    IF value # Zero64 THEN (BitLen64(value) \div 8) + 1 ELSE 1

__int_bytes_width(value) ==
    IF value # Zero64 THEN (BitLen64(value) + 7) \div 8 ELSE 1

yajbe_encode_null(w) == __mem_bytes_writer_write_byte(w, 0)

yajbe_encode_true(w) == __mem_bytes_writer_write_byte(w, 3)

yajbe_encode_false(w) == __mem_bytes_writer_write_byte(w, 2)

\* a variant that writes the low byte of value as it is
yajbe_encode_bool_raw(w, value) == __mem_bytes_writer_write_byte(w, value)

yajbe_encode_bool(w, value) ==
    __mem_bytes_writer_write_byte(w, IF value # 0 THEN 3 ELSE 2)

\* head and inline_max are C ints, length a word (size_t)
__yajbe_encode_length(w, head, inline_max, length) ==
    IF Le64(length, I(inline_max))
    THEN __mem_bytes_writer_write_byte(w, BitOr(head, NatOf(length)))
    ELSE Let(Sub64(length, I(inline_max)), LAMBDA delta_length :
         Let(__int_bytes_width(delta_length), LAMBDA bytes :
         Let(__mem_bytes_writer_write_byte(w, BitOr(head, inline_max + bytes)), LAMBDA r :
             IF r.r < 0 THEN r
             ELSE __mem_bytes_writer_write_uint(r.w, delta_length, bytes))))

yajbe_encode_array_fixed_length(w, length) == __yajbe_encode_length(w, 32, 10, length)

yajbe_encode_array_start(w) == __mem_bytes_writer_write_byte(w, 47)

\* a variant that ends a container with the boolean true tag
yajbe_encode_array_end_true(w) == __mem_bytes_writer_write_byte(w, 3)

yajbe_encode_array_end(w) == __mem_bytes_writer_write_byte(w, 1)

yajbe_encode_object_fixed_length(w, length) == __yajbe_encode_length(w, 48, 10, length)

yajbe_encode_object_start(w) == __mem_bytes_writer_write_byte(w, 63)

yajbe_encode_object_end(w) == __mem_bytes_writer_write_byte(w, 1)

\* value is an int64_t word; the byte written is the low byte of 0x40 | (value - 1)
__yajbe_encode_positive_int(w, value) ==
    IF SLe64(value, U(24))
    THEN __mem_bytes_writer_write_byte(w, BitOr(64, ByteOf(Sub64(value, U(1)), 0)))
    ELSE Let(Sub64(value, U(25)), LAMBDA v2 :
         Let(__int_bytes_width(v2), LAMBDA bytes :
         Let(__mem_bytes_writer_write_byte(w, BitOr(64, 23 + bytes)), LAMBDA r :
             IF r.r < 0 THEN r
             ELSE __mem_bytes_writer_write_uint(r.w, v2, bytes))))

(***************************************************************************)
(* value = -value overflows for INT64_MIN, which is undefined behaviour.   *)
(* ub names what the build makes of it: "wrap" negates modulo 2^64 and     *)
(* compares the result (gcc -O0); "nowrap" is the optimising build, which  *)
(* decides -value <= 23 as value >= -23 (gcc -O2).  Both builds agree on   *)
(* every other value.                                                      *)
(***************************************************************************)
__yajbe_encode_negative_int(w, value, ub) ==
    Let(Neg64(value), LAMBDA v1 :
        IF (IF ub = "wrap" THEN SLe64(v1, U(23)) ELSE SLe64(I(0 - 23), value))
        THEN __mem_bytes_writer_write_byte(w, BitOr(96, ByteOf(v1, 0)))
        ELSE Let(Sub64(v1, U(24)), LAMBDA v2 :
             Let(__int_bytes_width(v2), LAMBDA bytes :
             Let(__mem_bytes_writer_write_byte(w, BitOr(96, 23 + bytes)), LAMBDA r :
                 IF r.r < 0 THEN r
                 ELSE __mem_bytes_writer_write_uint(r.w, v2, bytes)))))

yajbe_encode_int(w, value, ub) ==
    IF SLt64(Zero64, value)
    THEN __yajbe_encode_positive_int(w, value)
    ELSE __yajbe_encode_negative_int(w, value, ub)

\* value is the 4-byte object representation of the float, as a memory
yajbe_encode_float(w, value) ==
    Let(__mem_bytes_writer_write_byte(w, 5), LAMBDA r :
        IF r.r < 0 THEN r ELSE __mem_bytes_writer_write_bytes(r.w, value, U(4)))

\* value is the 8-byte object representation of the double, as a memory
yajbe_encode_double(w, value) ==
    Let(__mem_bytes_writer_write_byte(w, 6), LAMBDA r :
        IF r.r < 0 THEN r ELSE __mem_bytes_writer_write_bytes(r.w, value, U(8)))

\* utf8 is the caller's memory, length a word
yajbe_encode_string(w, utf8, length) ==
    Let(__yajbe_encode_length(w, 192, 59, length), LAMBDA r :
        IF r.r < 0 THEN r ELSE __mem_bytes_writer_write_bytes(r.w, utf8, length))

yajbe_encode_bytes(w, buf, length) ==
    Let(__yajbe_encode_length(w, 128, 59, length), LAMBDA r :
        IF r.r < 0 THEN r ELSE __mem_bytes_writer_write_bytes(r.w, buf, length))

(***************************************************************************)
(* Value decoder (yajbe-decoder.c).                                        *)
(***************************************************************************)
\* a variant of the decode table that makes a NULL of every head
TOKEN_MAP_null == [h \in 1..256 |-> YAJBE_NULL]

\* TOKEN_MAP[head] of the source is TOKEN_MAP[head + 1] here
TOKEN_MAP == <<
    0, 20, 1, 2, 12, 13, 14, 15, 8, 9, 9, 0 - 1, 0 - 1, 0 - 1, 0 - 1, 0 - 1,
    0 - 1, 0 - 1, 0 - 1, 0 - 1, 0 - 1, 0 - 1, 0 - 1, 0 - 1, 0 - 1, 0 - 1, 0 - 1, 0 - 1, 0 - 1, 0 - 1, 0 - 1, 0 - 1,
    16, 16, 16, 16, 16, 16, 16, 16, 16, 16, 16, 16, 16, 16, 16, 17,
    18, 18, 18, 18, 18, 18, 18, 18, 18, 18, 18, 18, 18, 18, 18, 19,
    3, 3, 3, 3, 3, 3, 3, 3, 3, 3, 3, 3, 3, 3, 3, 3,
    3, 3, 3, 3, 3, 3, 3, 3, 4, 4, 4, 4, 4, 4, 4, 4,
    3, 3, 3, 3, 3, 3, 3, 3, 3, 3, 3, 3, 3, 3, 3, 3,
    3, 3, 3, 3, 3, 3, 3, 3, 5, 5, 5, 5, 5, 5, 5, 5,
    10, 10, 10, 10, 10, 10, 10, 10, 10, 10, 10, 10, 10, 10, 10, 10,
    10, 10, 10, 10, 10, 10, 10, 10, 10, 10, 10, 10, 10, 10, 10, 10,
    10, 10, 10, 10, 10, 10, 10, 10, 10, 10, 10, 10, 10, 10, 10, 10,
    10, 10, 10, 10, 10, 10, 10, 10, 10, 10, 10, 10, 11, 11, 11, 11,
    6, 6, 6, 6, 6, 6, 6, 6, 6, 6, 6, 6, 6, 6, 6, 6,
    6, 6, 6, 6, 6, 6, 6, 6, 6, 6, 6, 6, 6, 6, 6, 6,
    6, 6, 6, 6, 6, 6, 6, 6, 6, 6, 6, 6, 6, 6, 6, 6,
    6, 6, 6, 6, 6, 6, 6, 6, 6, 6, 6, 6, 7, 7, 7, 7
>>

\* the decoder's scratch triple; its reader is passed beside it
yajbe_decoder_init ==
    [item_head |-> 0 - 1, item_type |-> 0 - 1, item_length |-> Zero64]

(***************************************************************************)
(* The operations of the decoder yield [r, rd, d, v]: the return code, the *)
(* reader and the decoder afterwards, and the value stored through the out *)
(* pointer: Some(x), or None when nothing was stored or what was stored    *)
(* was computed from an uninitialised local.                               *)
(***************************************************************************)
\* a variant that takes the inline maximum for 11
__read_item_count_11(rd, d) ==
    Let(BitAnd(d.item_head, 15), LAMBDA w :
        IF w <= 10
        THEN [r |-> 0, rd |-> rd, v |-> U(w)]
        ELSE Let(__mem_bytes_reader_read_uint(rd, w - 10), LAMBDA x :
                 [r |-> x.r, rd |-> x.rd,
                  v |-> IF x.r < 0 THEN UndefWord ELSE Add64(U(11), x.v)]))

__read_item_count(rd, d) ==
    Let(BitAnd(d.item_head, 15), LAMBDA w :
        IF w <= 10
        THEN [r |-> 0, rd |-> rd, v |-> U(w)]
        ELSE Let(__mem_bytes_reader_read_uint(rd, w - 10), LAMBDA x :
                 [r |-> x.r, rd |-> x.rd,
                  v |-> IF x.r < 0 THEN UndefWord ELSE Add64(U(10), x.v)]))

\* a variant that takes the inline maximum for 60
__read_item_length_60(rd, d) ==
    Let(__mem_bytes_reader_read_uint(rd, BitAnd(d.item_head, 63) - 59), LAMBDA x :
        [r |-> x.r, rd |-> x.rd,
         v |-> IF x.r < 0 THEN UndefWord ELSE Add64(U(60), x.v)])

__read_item_length(rd, d) ==
    Let(__mem_bytes_reader_read_uint(rd, BitAnd(d.item_head, 63) - 59), LAMBDA x :
        [r |-> x.r, rd |-> x.rd,
         v |-> IF x.r < 0 THEN UndefWord ELSE Add64(U(59), x.v)])

yajbe_decode_next(rd, d) ==
    Let(__mem_bytes_reader_read_byte(rd), LAMBDA h :
    IF h.r < 0 THEN [r |-> h.r, rd |-> h.rd, d |-> d]
    ELSE
    Let(TOKEN_MAP[h.v + 1], LAMBDA type :
    Let([d EXCEPT !.item_head = h.v, !.item_type = type], LAMBDA d1 :
        LET done(len) == [r |-> type, rd |-> h.rd, d |-> [d1 EXCEPT !.item_length = len]]
            read(c) == [r |-> IF c.r < 0 THEN c.r ELSE type,
                        rd |-> c.rd,
                        d |-> [d1 EXCEPT !.item_length = c.v]]
        IN  IF type \in {YAJBE_ARRAY, YAJBE_OBJECT}
            THEN read(__read_item_count(h.rd, d1))
            ELSE IF type \in {YAJBE_ARRAY_EOF, YAJBE_OBJECT_EOF}
            THEN done(<<0, 0, 0, B16 \div 2>>)
            ELSE IF type \in {YAJBE_SMALL_BYTES, YAJBE_SMALL_STRING}
            THEN done(U(BitAnd(h.v, 63)))
            ELSE IF type \in {YAJBE_BYTES, YAJBE_STRING}
            THEN read(__read_item_length(h.rd, d1))
            ELSE IF type = YAJBE_INT_SMALL
            THEN done(Zero64)
            ELSE IF type \in {YAJBE_INT_POSITIVE, YAJBE_INT_NEGATIVE}
            THEN done(I(BitAnd(h.v, 31) - 23))
            ELSE IF type = YAJBE_FLOAT_32
            THEN done(U(4))
            ELSE IF type = YAJBE_FLOAT_64
            THEN done(U(8))
            ELSE [r |-> type, rd |-> h.rd, d |-> d1])))

yajbe_decode_next_null(rd, d) ==
    Let(yajbe_decode_next(rd, d), LAMBDA n :
        [r |-> IF n.r = YAJBE_NULL THEN 0 ELSE IF n.r < 0 THEN n.r ELSE 0 - EINVAL,
         rd |-> n.rd, d |-> n.d, v |-> None])

yajbe_decode_bool(rd, d) ==
    IF d.item_type = YAJBE_TRUE THEN [r |-> 0, rd |-> rd, d |-> d, v |-> Some(1)]
    ELSE IF d.item_type = YAJBE_FALSE THEN [r |-> 0, rd |-> rd, d |-> d, v |-> Some(0)]
    ELSE [r |-> 0 - EINVAL, rd |-> rd, d |-> d, v |-> None]

yajbe_decode_next_bool(rd, d) ==
    Let(yajbe_decode_next(rd, d), LAMBDA n :
        IF n.r < 0 THEN [r |-> 0, rd |-> n.rd, d |-> n.d, v |-> None]
        ELSE yajbe_decode_bool(n.rd, n.d))

__decode_small_int(rd, d) ==
    LET head == d.item_head
        signed_value == BitAnd(head, 96) = 96
        w == BitAnd(head, 31)
    IN  [r |-> 0, rd |-> rd, d |-> d, v |-> Some(IF signed_value THEN I(0 - w) ELSE I(1 + w))]

\* the additions below are done modulo 2^64, as the builds do them
__decode_int_positive(rd, d) ==
    Let(__mem_bytes_reader_read_uint(rd, NatOf(d.item_length)), LAMBDA x :
        [r |-> x.r, rd |-> x.rd, d |-> d,
         v |-> IF x.r < 0 THEN None ELSE Some(Add64(x.v, U(25)))])

__decode_int_negative(rd, d) ==
    Let(__mem_bytes_reader_read_uint(rd, NatOf(d.item_length)), LAMBDA x :
        [r |-> x.r, rd |-> x.rd, d |-> d,
         v |-> IF x.r < 0 THEN None ELSE Some(Neg64(Add64(x.v, U(24))))])

yajbe_decode_int(rd, d) ==
    IF d.item_type = YAJBE_INT_SMALL THEN __decode_small_int(rd, d)
    ELSE IF d.item_type = YAJBE_INT_POSITIVE THEN __decode_int_positive(rd, d)
    ELSE IF d.item_type = YAJBE_INT_NEGATIVE THEN __decode_int_negative(rd, d)
    ELSE [r |-> 0 - EINVAL, rd |-> rd, d |-> d, v |-> None]

yajbe_decode_next_int(rd, d) ==
    Let(yajbe_decode_next(rd, d), LAMBDA n :
        IF n.r < 0 THEN [r |-> 0, rd |-> n.rd, d |-> n.d, v |-> None]
        ELSE yajbe_decode_int(n.rd, n.d))

\* a variant that gathers three bytes of the four
yajbe_decode_float_3(rd, d) ==
    IF d.item_type # YAJBE_FLOAT_32
    THEN [r |-> 0 - EINVAL, rd |-> rd, d |-> d, v |-> None]
    ELSE Let(__mem_bytes_reader_read_uint(rd, 3), LAMBDA x :
             [r |-> x.r, rd |-> x.rd, d |-> d,
              v |-> IF x.r < 0 THEN None
                    ELSE Some(MemOfSeq([k \in 1..4 |-> ByteOf(x.v, k - 1)]))])

\* v is the 4-byte object representation stored into *value
yajbe_decode_float(rd, d) ==
    IF d.item_type # YAJBE_FLOAT_32
    THEN [r |-> 0 - EINVAL, rd |-> rd, d |-> d, v |-> None]
    ELSE Let(__mem_bytes_reader_read_uint(rd, 4), LAMBDA x :
             [r |-> x.r, rd |-> x.rd, d |-> d,
              v |-> IF x.r < 0 THEN None
                    ELSE Some(MemOfSeq([k \in 1..4 |-> ByteOf(x.v, k - 1)]))])

yajbe_decode_next_float(rd, d) ==
    Let(yajbe_decode_next(rd, d), LAMBDA n :
        IF n.r < 0 THEN [r |-> 0, rd |-> n.rd, d |-> n.d, v |-> None]
        ELSE yajbe_decode_float(n.rd, n.d))

yajbe_decode_double(rd, d) ==
    IF d.item_type # YAJBE_FLOAT_64
    THEN [r |-> 0 - EINVAL, rd |-> rd, d |-> d, v |-> None]
    ELSE Let(__mem_bytes_reader_read_uint(rd, 8), LAMBDA x :
             [r |-> x.r, rd |-> x.rd, d |-> d,
              v |-> IF x.r < 0 THEN None
                    ELSE Some(MemOfSeq([k \in 1..8 |-> ByteOf(x.v, k - 1)]))])

yajbe_decode_next_double(rd, d) ==
    Let(yajbe_decode_next(rd, d), LAMBDA n :
        IF n.r < 0 THEN [r |-> 0, rd |-> n.rd, d |-> n.d, v |-> None]
        ELSE yajbe_decode_double(n.rd, n.d))

\* buflen is a word; v is the memory copied into buf
yajbe_decode_bytes(rd, d, buflen) ==
    IF (d.item_type # YAJBE_SMALL_BYTES /\ d.item_type # YAJBE_BYTES)
         \/ Lt64(buflen, d.item_length)
    THEN [r |-> 0 - EINVAL, rd |-> rd, d |-> d, v |-> None]
    ELSE Let(__mem_bytes_reader_read_bytes(rd, d.item_length), LAMBDA x :
             [r |-> x.r, rd |-> x.rd, d |-> d, v |-> IF x.r < 0 THEN None ELSE Some(x.v)])

yajbe_decode_next_bytes(rd, d, buflen) ==
    Let(yajbe_decode_next(rd, d), LAMBDA n :
        IF n.r < 0 THEN [r |-> 0, rd |-> n.rd, d |-> n.d, v |-> None]
        ELSE yajbe_decode_bytes(n.rd, n.d, buflen))

yajbe_decode_string(rd, d, buflen) ==
    IF (d.item_type # YAJBE_SMALL_STRING /\ d.item_type # YAJBE_STRING)
         \/ Lt64(buflen, d.item_length)
    THEN [r |-> 0 - EINVAL, rd |-> rd, d |-> d, v |-> None]
    ELSE Let(__mem_bytes_reader_read_bytes(rd, d.item_length), LAMBDA x :
             [r |-> x.r, rd |-> x.rd, d |-> d, v |-> IF x.r < 0 THEN None ELSE Some(x.v)])

yajbe_decode_next_string(rd, d, buflen) ==
    Let(yajbe_decode_next(rd, d), LAMBDA n :
        IF n.r < 0 THEN [r |-> 0, rd |-> n.rd, d |-> n.d, v |-> None]
        ELSE yajbe_decode_string(n.rd, n.d, buflen))

(***************************************************************************)
(* Caller memory holding field names.  A key pointer is an index into the  *)
(* sequence of the caller's key buffers (NULL is 0); a buffer is           *)
(* [bytes, junk]: the key's bytes, and the byte that the memory after the  *)
(* key happens to hold, which is what a read past the key's end returns    *)
(* (for a C string literal: its NUL terminator).                           *)
(***************************************************************************)
NULL == 0

\* key[i] of the source, i from 0
CharAt(mem, key, i) ==
    IF i < Len(mem[key].bytes) THEN mem[key].bytes[i + 1] ELSE mem[key].junk

\* the n cells at key + from, as a memory
KeyMem(mem, key, from, n) == MemOfSeq([i \in 1..n |-> CharAt(mem, key, from + i - 1)])

(***************************************************************************)
(* 32-bit hashes: four bytes, least significant first.                     *)
(***************************************************************************)
Mul32(a, b) ==
    LET c1 == a[1] * b[1]
        c2 == a[1] * b[2] + a[2] * b[1] + (c1 \div 256)
        c3 == a[1] * b[3] + a[2] * b[2] + a[3] * b[1] + (c2 \div 256)
        c4 == a[1] * b[4] + a[2] * b[3] + a[3] * b[2] + a[4] * b[1] + (c3 \div 256)
    IN  <<c1 % 256, c2 % 256, c3 % 256, c4 % 256>>

\* hash ^= c for a char c: a char of 0x80 and above is sign-extended (char is
\* signed on the x86 and x86-64 ABIs)
XorChar32(h, c) ==
    IF c < 128 THEN <<BitXor(h[1], c), h[2], h[3], h[4]>>
    ELSE <<BitXor(h[1], c), 255 - h[2], 255 - h[3], 255 - h[4]>>

\* 0x811c9dc5
FNV_BASIS == <<197, 157, 28, 129>>

\* the loop of __hash_fnv_1a; hash is four bytes, so that Len(hash) = 0 never
\* holds: the test has each step's hash computed before the next byte is taken
RECURSIVE HashFrom(_, _)
HashFrom(hash, bytes) ==
    IF bytes = <<>> \/ Len(hash) = 0 THEN hash
    ELSE HashFrom(Mul32(XorChar32(hash, Head(bytes)), FNV_BASIS), Tail(bytes))

\* key is the sequence of the length bytes hashed
__hash_fnv_1a(key) == HashFrom(FNV_BASIS, key)

(***************************************************************************)
(* Field encoder (fields-encoder.c):                                       *)
(*   [entries, entries_size, entries_count, last_key, last_keylen]         *)
(* entries is the table, slots 0 .. entries_size - 1, each                 *)
(* [name, length, hash, index] with name a key pointer.                    *)
(***************************************************************************)
__field_name_entry_set(index, hash, key, keylen) ==
    [name |-> key, length |-> keylen, hash |-> hash, index |-> index]

__field_name_entry_equals(self, mem, hash, key, keylen) ==
    /\ self.hash = hash
    /\ self.length = keylen
    /\ \A i \in 0..(keylen - 1) : CharAt(mem, self.name, i) = CharAt(mem, key, i)

yajbe_field_encoder_init_fixed(entries_size) ==
    [entries |-> [i \in 0..(entries_size - 1) |->
                    [name |-> NULL, length |-> 0, hash |-> <<0, 0, 0, 0>>, index |-> 0]],
     entries_size |-> entries_size,
     entries_count |-> 0,
     last_key |-> NULL,
     last_keylen |-> 0]

\* khash & mask, for a table of at most 2^16 slots
HashIndex(khash, mask) == BitAnd(khash[1] + 256 * khash[2], mask)

\* the probe loop of hadd from slot hindex: the index stored with an equal key,
\* or the slot of the first empty entry
RECURSIVE HaddProbe(_, _, _, _, _, _)
HaddProbe(self, mem, khash, key, keylen, hindex) ==
    LET entry == self.entries[hindex]
    IN  IF entry.name = NULL THEN [found |-> FALSE, slot |-> hindex]
        ELSE IF __field_name_entry_equals(entry, mem, khash, key, keylen)
        THEN [found |-> TRUE, index |-> entry.index]
        ELSE HaddProbe(self, mem, khash, key, keylen,
                       BitAnd(hindex + 1, self.entries_size - 1))

\* yields [r, fe]
yajbe_field_encoder_hadd(self, mem, khash, key, keylen) ==
    IF self.entries_count = self.entries_size
    THEN [r |-> 0 - ENOSPC, fe |-> self]
    ELSE Let(HaddProbe(self, mem, khash, key, keylen,
                       HashIndex(khash, self.entries_size - 1)), LAMBDA p :
             IF p.found THEN [r |-> p.index, fe |-> self]
             ELSE [r |-> self.entries_count,
                   fe |-> [self EXCEPT
                             !.entries_count = @ + 1,
                             !.entries[p.slot] =
                                 __field_name_entry_set(self.entries_count, khash, key, keylen)]])

\* the loop of hget: i slots were looked at so far
RECURSIVE HgetProbe(_, _, _, _, _, _, _)
HgetProbe(self, mem, khash, key, keylen, hindex, i) ==
    IF i >= self.entries_size THEN 0 - 1
    ELSE LET entry == self.entries[hindex]
         IN  IF entry.name = NULL THEN 0 - 1
             ELSE IF __field_name_entry_equals(entry, mem, khash, key, keylen)
             THEN entry.index
             ELSE HgetProbe(self, mem, khash, key, keylen,
                            BitAnd(hindex + 1, self.entries_size - 1), i + 1)

\* a variant that looks at the first slot only
yajbe_field_encoder_hget_first(self, mem, khash, key, keylen) ==
    LET entry == self.entries[HashIndex(khash, self.entries_size - 1)]
    IN  IF entry.name # NULL /\ __field_name_entry_equals(entry, mem, khash, key, keylen)
        THEN entry.index
        ELSE 0 - 1

yajbe_field_encoder_hget(self, mem, khash, key, keylen) ==
    HgetProbe(self, mem, khash, key, keylen, HashIndex(khash, self.entries_size - 1), 0)

\* the key's bytes as __hash_fnv_1a reads them
KeyRead(mem, key, keylen) == [i \in 1..keylen |-> CharAt(mem, key, i - 1)]

yajbe_field_encoder_add(self, mem, key, keylen) ==
    yajbe_field_encoder_hadd(self, mem, __hash_fnv_1a(KeyRead(mem, key, keylen)), key, keylen)

yajbe_field_encoder_get(self, mem, key, keylen) ==
    yajbe_field_encoder_hget(self, mem, __hash_fnv_1a(KeyRead(mem, key, keylen)), key, keylen)

\* the number of slots the while loop of hadd looks at from slot hindex, the
\* one that ends it included; i slots were looked at so far, and the count
\* stops at lim
RECURSIVE HaddSteps(_, _, _, _, _, _, _, _)
HaddSteps(self, mem, khash, key, keylen, hindex, i, lim) ==
    IF i >= lim THEN i
    ELSE LET entry == self.entries[hindex]
         IN  IF entry.name = NULL THEN i + 1
             ELSE IF __field_name_entry_equals(entry, mem, khash, key, keylen) THEN i + 1
             ELSE HaddSteps(self, mem, khash, key, keylen,
                            BitAnd(hindex + 1, self.entries_size - 1), i + 1, lim)

\* the first i at or after `from` where the two keys differ, len when there is none
RECURSIVE PrefixLoop(_, _, _, _, _)
PrefixLoop(mem, last_key, key, len, i) ==
    IF i >= len THEN len
    ELSE IF CharAt(mem, last_key, i) # CharAt(mem, key, i) THEN i
    ELSE PrefixLoop(mem, last_key, key, len, i + 1)

__prefix(self, mem, key, keylen) ==
    PrefixLoop(mem, self.last_key, key, Min(self.last_keylen, keylen), 0)

RECURSIVE SuffixLoop(_, _, _, _, _, _, _)
SuffixLoop(mem, last_key, last_keylen, key, keylen, len, i) ==
    IF i >= len THEN len
    ELSE IF CharAt(mem, last_key, last_keylen - i) # CharAt(mem, key, keylen - i) THEN i - 1
    ELSE SuffixLoop(mem, last_key, last_keylen, key, keylen, len, i + 1)

\* keylen is what the caller passes: the key's length less the prefix
__suffix(self, mem, key, prefix, keylen) ==
    SuffixLoop(mem, self.last_key, self.last_keylen, key, keylen,
               Min(self.last_keylen, keylen), 1)

\* the sink's return codes are dropped: yields [r, w]
__write_length(w, head, length) ==
    IF length < 30
    THEN [r |-> 0, w |-> __mem_bytes_writer_write_byte(w, BitOr(head, length)).w]
    ELSE IF length <= 284
    THEN LET w1 == __mem_bytes_writer_write_byte(w, BitOr(head, 30)).w
         IN  [r |-> 0, w |-> __mem_bytes_writer_write_byte(w1, BitAnd(length - 29, 255)).w]
    ELSE IF length <= 65819
    THEN LET w1 == __mem_bytes_writer_write_byte(w, BitOr(head, 31)).w
             w2 == __mem_bytes_writer_write_byte(w1, (length - 284) \div 256).w
         IN  [r |-> 0, w |-> __mem_bytes_writer_write_byte(w2, BitAnd(length - 284, 255)).w]
    ELSE [r |-> 0 - 1, w |-> w]

__encode_indexed_field(w, field_index) == __write_length(w, 160, field_index)

__encode_prefix(w, mem, key, keylen, prefix) ==
    LET length == keylen - prefix
        w1 == __write_length(w, 192, length).w
        w2 == __mem_bytes_writer_write_byte(w1, prefix).w
    IN  [r |-> 0,
         w |-> __mem_bytes_writer_write_bytes(w2, KeyMem(mem, key, prefix, length), U(length)).w]

\* the name bytes written are keylen - suffix cells from key + prefix
__encode_prefix_suffix(w, mem, key, keylen, prefix, suffix) ==
    LET length == keylen - prefix - suffix
        w1 == __write_length(w, 224, length).w
        w2 == __mem_bytes_writer_write_byte(w1, prefix).w
        w3 == __mem_bytes_writer_write_byte(w2, suffix).w
    IN  [r |-> 0,
         w |-> __mem_bytes_writer_write_bytes(
                   w3, KeyMem(mem, key, prefix, keylen - suffix), U(keylen - suffix)).w]

__encode_full_field_name(w, mem, key, keylen) ==
    LET w1 == __write_length(w, 128, keylen).w
    IN  [r |-> 0,
         w |-> __mem_bytes_writer_write_bytes(w1, KeyMem(mem, key, 0, keylen), U(keylen)).w]

\* yields [r, fe, w]
yajbe_field_hencode(self, w, mem, khash, key, keylen) ==
    Let(yajbe_field_encoder_hget(self, mem, khash, key, keylen), LAMBDA index :
    IF index >= 0
    THEN Let(__encode_indexed_field(w, index), LAMBDA e :
             [r |-> e.r,
              fe |-> [self EXCEPT !.last_key = key, !.last_keylen = keylen],
              w |-> e.w])
    ELSE
    Let(Min(255, __prefix(self, mem, key, keylen)), LAMBDA prefix :
    Let(__suffix(self, mem, key, prefix, keylen - prefix), LAMBDA suffix :
        LET e == IF self.last_key # NULL /\ self.last_keylen > 4
                 THEN IF suffix > 2
                      THEN __encode_prefix_suffix(w, mem, key, keylen, prefix, Min(255, suffix))
                      ELSE IF prefix > 2
                      THEN __encode_prefix(w, mem, key, keylen, prefix)
                      ELSE __encode_full_field_name(w, mem, key, keylen)
                 ELSE __encode_full_field_name(w, mem, key, keylen)
            added == yajbe_field_encoder_hadd(self, mem, khash, key, keylen).fe
        IN  [r |-> 0,
             fe |-> [added EXCEPT !.last_key = key, !.last_keylen = keylen],
             w |-> e.w])))

yajbe_field_encode(self, w, mem, key, keylen) ==
    yajbe_field_hencode(self, w, mem,
                        __hash_fnv_1a([i \in 1..keylen |-> CharAt(mem, key, i - 1)]),
                        key, keylen)

(***************************************************************************)
(* Field decoder (fields-decoder.c):                                       *)
(*   [entries, entries_size, entries_count, buffer, buf_size, buf_off,     *)
(*    last_field]                                                          *)
(* entries holds the entries appended so far (entries[i + 1] is entry i of *)
(* the source); the slots after them are the caller's uninitialised array. *)
(* A field is [name, length], name an offset into the arena `buffer`; the  *)
(* null pointer is NullName, and WildName is a pointer read from a slot    *)
(* that was never written.                                                 *)
(***************************************************************************)
NullName == 0 - 1

WildName == 0 - 2

yajbe_field_decoder_init_fixed(entries_size, bufsize) ==
    [entries |-> <<>>,
     entries_size |-> entries_size,
     entries_count |-> 0,
     buffer |-> Run(Undef, U(bufsize)),
     buf_size |-> bufsize,
     buf_off |-> 0,
     last_field |-> [name |-> NullName, length |-> 0]]

\* the length cells a name pointer points at; nothing can be said of the cells
\* behind a null or wild pointer, or before the arena
NameMem(self, name, length) ==
    IF name < 0 THEN Run(Undef, U(length))
    ELSE MemRead(self.buffer, U(name), U(length))

__field_decoder_set_last_key(self, field) ==
    [self EXCEPT !.last_field = [name |-> field.name, length |-> field.length]]

\* a variant that hands out the arena without advancing buf_off
__field_next_entry_stay(self, length) ==
    IF self.buf_size < self.buf_off + length
    THEN [ok |-> FALSE, fd |-> self, field |-> [name |-> NullName, length |-> 0]]
    ELSE LET field == [name |-> self.buf_off, length |-> length]
         IN  [ok |-> TRUE,
              fd |-> [self EXCEPT !.entries = Append(@, field),
                                  !.entries_count = @ + 1],
              field |-> field]

\* yields [ok, fd, field]: ok is FALSE when NULL is returned
__field_next_entry(self, length) ==
    IF self.buf_size < self.buf_off + length
    THEN [ok |-> FALSE, fd |-> self, field |-> [name |-> NullName, length |-> 0]]
    ELSE LET field == [name |-> self.buf_off, length |-> length]
         IN  [ok |-> TRUE,
              fd |-> [self EXCEPT !.entries = Append(@, field),
                                  !.entries_count = @ + 1,
                                  !.buf_off = @ + length],
              field |-> field]

(***************************************************************************)
(* The reads of the field decoder drop the source's return codes.  g is    *)
(* what an uninitialised local holds when the read meant to set it failed. *)
(***************************************************************************)
\* yields [v, rd]
__read_length(rd, head, g) ==
    Let(BitAnd(head, 31), LAMBDA length :
        IF length < 30 THEN [v |-> length, rd |-> rd]
        ELSE IF length = 30
        THEN Let(__mem_bytes_reader_read_byte(rd), LAMBDA x :
                 [v |-> 29 + (IF x.r < 0 THEN g ELSE x.v), rd |-> x.rd])
        ELSE Let(__mem_bytes_reader_read_bytes(rd, U(2)), LAMBDA x :
             Let(IF x.r < 0 THEN <<g % 256, g % 256>> ELSE SeqOfMem(x.v), LAMBDA buf :
                 [v |-> 284 + 256 * buf[1] + buf[2], rd |-> x.rd])))

\* the arena after z_bytes_reader_read(reader, name, length); yields [buffer, rd]
ReadIntoArena(self, rd, name, length) ==
    Let(__mem_bytes_reader_read_bytes(rd, U(length)), LAMBDA x :
        [buffer |-> IF x.r < 0 THEN self.buffer ELSE MemWrite(self.buffer, U(name), x.v),
         rd |-> x.rd])

\* a variant without the test of entries_count
__read_full_field_name_unchecked(self, rd, head, g) ==
    Let(__read_length(rd, head, g), LAMBDA l :
    Let(__field_next_entry(self, l.v), LAMBDA n :
        IF ~n.ok
        THEN [r |-> 0 - ENOSPC, fd |-> self, rd |-> l.rd, field |-> Some(n.field)]
        ELSE Let(ReadIntoArena(n.fd, l.rd, n.field.name, l.v), LAMBDA a :
                 [r |-> 0,
                  fd |-> __field_decoder_set_last_key(
                             [n.fd EXCEPT !.buffer = a.buffer], n.field),
                  rd |-> a.rd,
                  field |-> Some(n.field)])))

\* yields [r, fd, rd, field]; field is None when *field was not assigned
__read_full_field_name(self, rd, head, g) ==
    IF self.entries_count = self.entries_size
    THEN [r |-> 0 - ENOSPC, fd |-> self, rd |-> rd, field |-> None]
    ELSE Let(__read_length(rd, head, g), LAMBDA l :
         Let(__field_next_entry(self, l.v), LAMBDA n :
             IF ~n.ok
             THEN [r |-> 0 - ENOSPC, fd |-> self, rd |-> l.rd, field |-> Some(n.field)]
             ELSE Let(ReadIntoArena(n.fd, l.rd, n.field.name, l.v), LAMBDA a :
                      [r |-> 0,
                       fd |-> __field_decoder_set_last_key(
                                  [n.fd EXCEPT !.buffer = a.buffer], n.field),
                       rd |-> a.rd,
                       field |-> Some(n.field)])))

\* entries[index] of the source: a slot past the appended entries was never written
EntryAt(self, index, g) ==
    IF index < self.entries_count THEN self.entries[index + 1]
    ELSE [name |-> WildName, length |-> g]

\* a variant that leaves last_field as it was
__read_indexed_field_name_keep(self, rd, head, g) ==
    Let(__read_length(rd, head, g), LAMBDA l :
    Let(EntryAt(self, l.v, g), LAMBDA field :
        [r |-> 0, fd |-> self, rd |-> l.rd, field |-> Some(field)]))

__read_indexed_field_name(self, rd, head, g) ==
    Let(__read_length(rd, head, g), LAMBDA l :
    Let(EntryAt(self, l.v, g), LAMBDA field :
        [r |-> 0,
         fd |-> __field_decoder_set_last_key(self, field),
         rd |-> l.rd,
         field |-> Some(field)]))

__read_prefix(self, rd, head, g) ==
    IF self.entries_count = self.entries_size
    THEN [r |-> 0 - ENOSPC, fd |-> self, rd |-> rd, field |-> None]
    ELSE Let(__read_length(rd, head, g), LAMBDA l :
         Let(__mem_bytes_reader_read_byte(l.rd), LAMBDA p :
         Let(IF p.r < 0 THEN g ELSE p.v, LAMBDA prefix :
         Let(__field_next_entry(self, prefix + l.v), LAMBDA n :
             IF ~n.ok
             THEN [r |-> 0 - ENOSPC, fd |-> self, rd |-> p.rd, field |-> Some(n.field)]
             ELSE Let(MemWrite(n.fd.buffer, U(n.field.name),
                               NameMem(self, self.last_field.name, prefix)), LAMBDA copied :
                  Let(ReadIntoArena([n.fd EXCEPT !.buffer = copied], p.rd,
                                    n.field.name + prefix, l.v), LAMBDA a :
                      [r |-> 0,
                       fd |-> __field_decoder_set_last_key(
                                  [n.fd EXCEPT !.buffer = a.buffer], n.field),
                       rd |-> a.rd,
                       field |-> Some(n.field)]))))))

__read_prefix_suffix(self, rd, head, g) ==
    IF self.entries_count = self.entries_size
    THEN [r |-> 0 - ENOSPC, fd |-> self, rd |-> rd, field |-> None]
    ELSE Let(__read_length(rd, head, g), LAMBDA l :
         Let(__mem_bytes_reader_read_bytes(l.rd, U(2)), LAMBDA x :
         Let(IF x.r < 0 THEN <<g % 256, g % 256>> ELSE SeqOfMem(x.v), LAMBDA delta :
         Let(__field_next_entry(self, delta[1] + delta[2] + l.v), LAMBDA n :
             IF ~n.ok
             THEN [r |-> 0 - ENOSPC, fd |-> self, rd |-> x.rd, field |-> Some(n.field)]
             ELSE Let(MemWrite(n.fd.buffer, U(n.field.name),
                               NameMem(self, self.last_field.name, delta[1])), LAMBDA c1 :
                  Let(ReadIntoArena([n.fd EXCEPT !.buffer = c1], x.rd,
                                    n.field.name + delta[1], l.v), LAMBDA a :
                  Let(IF self.last_field.name < 0 THEN self.last_field.name
                      ELSE self.last_field.name + self.last_field.length - delta[2],
                      LAMBDA from :
                  Let(MemWrite(a.buffer, U(n.field.name + delta[1] + l.v),
                               NameMem([self EXCEPT !.buffer = a.buffer], from, delta[2])),
                      LAMBDA c2 :
                      [r |-> 0,
                       fd |-> __field_decoder_set_last_key(
                                  [n.fd EXCEPT !.buffer = c2], n.field),
                       rd |-> a.rd,
                       field |-> Some(n.field)]))))))))

yajbe_field_decode(self, rd, g) ==
    Let(__mem_bytes_reader_read_byte(rd), LAMBDA h :
    Let(IF h.r < 0 THEN g ELSE h.v, LAMBDA head :
    Let(BitAnd(head \div 32, 7), LAMBDA family :
        IF family = 4 THEN __read_full_field_name(self, h.rd, head, g)
        ELSE IF family = 5 THEN __read_indexed_field_name(self, h.rd, head, g)
        ELSE IF family = 6 THEN __read_prefix(self, h.rd, head, g)
        ELSE IF family = 7 THEN __read_prefix_suffix(self, h.rd, head, g)
        ELSE [r |-> 0 - 1, fd |-> self, rd |-> h.rd, field |-> None])))

(***************************************************************************)
(* The program: a producer and a consumer, as in tests/ and examples/.     *)
(*                                                                         *)
(*   writer, fenc     the sink and the field encoder of the producer       *)
(*   keymem           the caller's key buffers, one per field-encode call  *)
(*   reader, decoder, fdec                                                 *)
(*                    the source, the value decoder's scratch triple and   *)
(*                    the field decoder of the consumer                    *)
(*   phase            "encode" until the consumer takes over the bytes     *)
(*   calls            the encoder calls made so far, each with its         *)
(*                    arguments, return code and sink offsets              *)
(*   results          the decoder calls made so far, each with its return  *)
(*                    code, the value it stored and the source offsets     *)
(*   pos              the encoder call whose token the consumer is at      *)
(***************************************************************************)
VARIABLES writer, fenc, keymem, reader, decoder, fdec, phase, calls, results, pos

vars == <<writer, fenc, keymem, reader, decoder, fdec, phase, calls, results, pos>>

Last(s) == s[Len(s)]

\* a decode_next was made for the token at pos and its payload is still unread
Pending == results # <<>> /\ Last(results).op = "next" /\ Last(results).call = pos

\* the state after construction: sink of bufsize bytes, field table of
\* entries_size slots; the consumer's field table and arena as given
Construct(bufsize, entries_size, dec_entries_size, arena_size) ==
    /\ writer = z_mem_bytes_writer_init_fixed(bufsize)
    /\ fenc = yajbe_field_encoder_init_fixed(entries_size)
    /\ keymem = <<>>
    /\ reader = z_mem_bytes_reader_init(<<>>, Zero64)
    /\ decoder = yajbe_decoder_init
    /\ fdec = yajbe_field_decoder_init_fixed(dec_entries_size, arena_size)
    /\ phase = "encode"
    /\ calls = <<>>
    /\ results = <<>>
    /\ pos = 1

ProducerUnchanged == UNCHANGED <<writer, fenc, keymem, calls, phase>>

ConsumerUnchanged == UNCHANGED <<reader, decoder, fdec, results, pos>>

\* the record of an encoder call that left the sink as res.w
Call(op, arg, res) ==
    [op |-> op, arg |-> arg, r |-> res.r, from |-> writer.offset, to |-> res.w.offset]

\* a value-encoder call
Encode(op, arg, res) ==
    /\ phase = "encode"
    /\ writer' = res.w
    /\ calls' = Append(calls, Call(op, arg, res))
    /\ UNCHANGED <<fenc, keymem, phase>>
    /\ ConsumerUnchanged

EncodeNull == Encode("null", 0, yajbe_encode_null(writer))

EncodeTrue == Encode("true", 1, yajbe_encode_true(writer))

EncodeFalse == Encode("false", 0, yajbe_encode_false(writer))

EncodeBool(value) == Encode("bool", value, yajbe_encode_bool(writer, value))

EncodeInt(value, ub) == Encode("int", value, yajbe_encode_int(writer, value, ub))

EncodeFloat(value) == Encode("float", value, yajbe_encode_float(writer, value))

EncodeDouble(value) == Encode("double", value, yajbe_encode_double(writer, value))

EncodeString(utf8) == Encode("string", utf8, yajbe_encode_string(writer, utf8, MemLen(utf8)))

EncodeBytes(buf) == Encode("bytes", buf, yajbe_encode_bytes(writer, buf, MemLen(buf)))

EncodeArrayFixedLength(length) ==
    Encode("array", length, yajbe_encode_array_fixed_length(writer, length))

EncodeArrayStart == Encode("array_start", 0, yajbe_encode_array_start(writer))

EncodeArrayEnd == Encode("array_end", 0, yajbe_encode_array_end(writer))

EncodeObjectFixedLength(length) ==
    Encode("object", length, yajbe_encode_object_fixed_length(writer, length))

EncodeObjectStart == Encode("object_start", 0, yajbe_encode_object_start(writer))

EncodeObjectEnd == Encode("object_end", 0, yajbe_encode_object_end(writer))

\* a sink so large that no write to it fails
Roomy(w) == [w EXCEPT !.bufsize = Not64(Zero64)]

(***************************************************************************)
(* yajbe_encode_object_field / yajbe_field_encode with a key the caller    *)
(* holds in a buffer of its own.  The record of the call also keeps what   *)
(* the table said before and after it: `known` is the index the key had    *)
(* before the call (-1: none), `index` the one it has after it, `count`    *)
(* and `count_to` the number of entries before and after the call, `need`  *)
(* the size of the token.                                                  *)
(***************************************************************************)
\* the field-encoder call that yielded res on the sink, and ideal on a roomy one
FieldCall(key, mem, khash, res, ideal) ==
    /\ phase = "encode"
    /\ keymem' = mem
    /\ fenc' = res.fe
    /\ writer' = res.w
    /\ calls' = Append(calls,
           [op |-> "field", arg |-> key, r |-> res.r,
            from |-> writer.offset, to |-> res.w.offset,
            known |-> yajbe_field_encoder_hget(fenc, mem, khash, Len(mem), Len(key)),
            index |-> yajbe_field_encoder_hget(res.fe, mem, khash, Len(mem), Len(key)),
            count |-> fenc.entries_count,
            count_to |-> res.fe.entries_count,
            need |-> Sub64(ideal.w.offset, writer.offset)])
    /\ UNCHANGED phase
    /\ ConsumerUnchanged

\* the caller's memory with one more key buffer; the new key's pointer is its index
WithKey(key, junk) == Append(keymem, [bytes |-> key, junk |-> junk])

EncodeField(key, junk) ==
    FieldCall(key, WithKey(key, junk), __hash_fnv_1a(key),
              yajbe_field_encode(fenc, writer, WithKey(key, junk),
                                 Len(keymem) + 1, Len(key)),
              yajbe_field_encode(fenc, Roomy(writer), WithKey(key, junk),
                                 Len(keymem) + 1, Len(key)))

(***************************************************************************)
(* The consumer takes over the first bufsize bytes of the sink's buffer.   *)
(* The tests and the demo pass the writer's offset; a shorter source is a  *)
(* truncated stream.                                                       *)
(***************************************************************************)
StartDecodeWith(bufsize) ==
    /\ phase = "encode"
    /\ calls # <<>>
    /\ phase' = "decode"
    /\ reader' = z_mem_bytes_reader_init(writer.buffer, bufsize)
    /\ decoder' = yajbe_decoder_init
    /\ UNCHANGED <<writer, fenc, keymem, calls, fdec, results, pos>>

StartDecode == StartDecodeWith(writer.offset)

\* the record of a decoder call that yielded res
Result(op, res) ==
    [op |-> op, call |-> pos, r |-> res.r, v |-> res.v,
     head |-> res.d.item_head, type |-> res.d.item_type, length |-> res.d.item_length,
     from |-> reader.offset, to |-> res.rd.offset, avail |-> reader.bufsize]

\* ops of the encoder whose token carries a payload that a typed read consumes
PayloadOps == {"int", "float", "double", "string", "bytes"}

AtCall == phase = "decode" /\ pos <= Len(calls)

\* yajbe_decode_next at the head of the token of call pos
NextCall(res) ==
    /\ AtCall
    /\ ~Pending
    /\ reader' = res.rd
    /\ decoder' = res.d
    /\ results' = Append(results, Result("next", [r |-> res.r, rd |-> res.rd, d |-> res.d, v |-> None]))
    /\ pos' = IF calls[pos].op \in PayloadOps THEN pos ELSE pos + 1
    /\ UNCHANGED fdec
    /\ ProducerUnchanged

DecodeNext == NextCall(yajbe_decode_next(reader, decoder))

\* a typed read, after decode_next or with it
Decode(op, res) ==
    /\ reader' = res.rd
    /\ decoder' = res.d
    /\ results' = Append(results, Result(op, res))
    /\ pos' = pos + 1
    /\ UNCHANGED fdec
    /\ ProducerUnchanged

DecodeInt ==
    AtCall /\ Pending /\ calls[pos].op = "int" /\ Decode("int", yajbe_decode_int(reader, decoder))

DecodeFloat ==
    AtCall /\ Pending /\ calls[pos].op = "float"
        /\ Decode("float", yajbe_decode_float(reader, decoder))

DecodeDouble ==
    AtCall /\ Pending /\ calls[pos].op = "double"
        /\ Decode("double", yajbe_decode_double(reader, decoder))

DecodeString(buflen) ==
    AtCall /\ Pending /\ calls[pos].op = "string"
        /\ Decode("string", yajbe_decode_string(reader, decoder, buflen))

DecodeBytes(buflen) ==
    AtCall /\ Pending /\ calls[pos].op = "bytes"
        /\ Decode("bytes", yajbe_decode_bytes(reader, decoder, buflen))

DecodeNextNull ==
    AtCall /\ ~Pending /\ calls[pos].op = "null"
        /\ Decode("next_null", yajbe_decode_next_null(reader, decoder))

DecodeNextBool ==
    AtCall /\ ~Pending /\ calls[pos].op \in {"true", "false", "bool"}
        /\ Decode("next_bool", yajbe_decode_next_bool(reader, decoder))

DecodeNextInt ==
    AtCall /\ ~Pending /\ calls[pos].op = "int"
        /\ Decode("next_int", yajbe_decode_next_int(reader, decoder))

DecodeNextFloat ==
    AtCall /\ ~Pending /\ calls[pos].op = "float"
        /\ Decode("next_float", yajbe_decode_next_float(reader, decoder))

DecodeNextDouble ==
    AtCall /\ ~Pending /\ calls[pos].op = "double"
        /\ Decode("next_double", yajbe_decode_next_double(reader, decoder))

DecodeNextString(buflen) ==
    AtCall /\ ~Pending /\ calls[pos].op = "string"
        /\ Decode("next_string", yajbe_decode_next_string(reader, decoder, buflen))

DecodeNextBytes(buflen) ==
    AtCall /\ ~Pending /\ calls[pos].op = "bytes"
        /\ Decode("next_bytes", yajbe_decode_next_bytes(reader, decoder, buflen))

\* the name a field points at, as the caller reads it: field.length cells
FieldBytes(fd, field) == SeqOfMem(NameMem(fd, field.name, field.length))

\* the field handed back with the bytes it points at, or None when *field was
\* not assigned or is NULL
FieldSeen(fd, field) ==
    IF field = None \/ field[1].name = NullName THEN None
    ELSE Some([name |-> field[1].name, length |-> field[1].length,
               bytes |-> FieldBytes(fd, field[1])])

\* the field-decoder call that yielded res
FieldResult(res) ==
    /\ AtCall
    /\ ~Pending
    /\ calls[pos].op = "field"
    /\ reader' = res.rd
    /\ fdec' = res.fd
    /\ results' = Append(results,
           [op |-> "field", call |-> pos, r |-> res.r,
            v |-> FieldSeen(res.fd, res.field),
            from |-> reader.offset, to |-> res.rd.offset, avail |-> reader.bufsize])
    /\ pos' = pos + 1
    /\ UNCHANGED decoder
    /\ ProducerUnchanged

\* yajbe_decode_object_field / yajbe_field_decode
DecodeField(g) == FieldResult(yajbe_field_decode(fdec, reader, g))

(***************************************************************************)
(* Field names: a producer encodes up to MaxKeys keys, a consumer decodes  *)
(* them in order (tests/test-field.c).                                     *)
(***************************************************************************)
MaxKeys == 3

\* the caller's key buffers: "a", "abcde", "xbcde", "aaaaa", "aaaaabbb" as C
\* strings (a NUL behind the key), and "aaaaabbb" with a 'b' behind it
KeyBuffers ==
    { [bytes |-> <<97>>, junk |-> 0],
      [bytes |-> <<97, 98, 99, 100, 101>>, junk |-> 0],
      [bytes |-> <<120, 98, 99, 100, 101>>, junk |-> 0],
      [bytes |-> <<97, 97, 97, 97, 97>>, junk |-> 0],
      [bytes |-> <<97, 97, 97, 97, 97, 98, 98, 98>>, junk |-> 0],
      [bytes |-> <<97, 97, 97, 97, 97, 98, 98, 98>>, junk |-> 98] }

\* what an uninitialised local may hold
Garbage == {0, 255}

\* capacities of the producer's table (the probe mask wants powers of two)
TableSizes == {1, 2, 4}

\* sizes of the sink: too small for a long name, and ample
FieldSinkSizes == {U(3), U(64)}

\* the consumer's table and arena, ample for MaxKeys names
DecEntries == 16

ArenaSize == 256

InitField ==
    \E bufsize \in FieldSinkSizes, entries_size \in TableSizes :
        Construct(bufsize, entries_size, DecEntries, ArenaSize)

NextField ==
    \/ \E k \in KeyBuffers : Len(calls) < MaxKeys /\ EncodeField(k.bytes, k.junk)
    \/ StartDecode
    \/ \E g \in Garbage : DecodeField(g)

SpecField == InitField /\ [][NextField]_vars

\* the keys of the first n calls
KeysOf(n) == {calls[j].arg : j \in 1..n}

\* the token of call c had room in the sink
Fits(c) == Le64(Add64(c.from, c.need), writer.bufsize)

\* the bytes call c left in the sink
Emitted(c) == SeqOfMem(MemRead(writer.buffer, c.from, Sub64(c.to, c.from)))

RECURSIVE NameBytes(_)
NameBytes(n) == IF n = 0 THEN 0 ELSE Len(calls[n].arg) + NameBytes(n - 1)

\* fewer distinct keys than the table capacity, enough sink and arena space
FieldRoom ==
    /\ Cardinality(KeysOf(Len(calls))) < fenc.entries_size
    /\ \A j \in 1..Len(calls) : Fits(calls[j])
    /\ NameBytes(Len(calls)) <= fdec.buf_size
    /\ Len(calls) <= fdec.entries_size

\* C1: with fewer distinct keys than the table capacity and enough sink and
\* arena space, the i-th yajbe_field_decode over the bytes that
\* yajbe_field_encode produced for K1..Kn returns 0 and a field whose length
\* and bytes equal Ki.
C1_FieldRoundTrip ==
    \A i \in 1..Len(results) :
        (results[i].op = "field" /\ FieldRoom)
            => /\ results[i].r = 0
               /\ results[i].v # None
               /\ results[i].v[1].length = Len(calls[i].arg)
               /\ results[i].v[1].bytes = calls[i].arg

\* "abcde" then "xbcde" were encoded and decoded, and the second name came
\* back as something else
C1_Mismatch ==
    /\ FieldRoom
    /\ Len(results) = 2
    /\ calls[1].arg = <<97, 98, 99, 100, 101>>
    /\ calls[2].arg = <<120, 98, 99, 100, 101>>
    /\ results[1].v = Some([name |-> 0, length |-> 5, bytes |-> calls[1].arg])
    /\ results[2].r = 0
    /\ results[2].v[1].bytes # calls[2].arg

\* the index of the first call with key k, counted in distinct keys
FirstSeen(k) ==
    LET first == CHOOSE i \in 1..Len(calls) :
                     calls[i].arg = k /\ \A j \in 1..(i - 1) : calls[j].arg # k
    IN  Cardinality(KeysOf(first - 1))

\* the indexed form (head family 101) of an index below 30
IndexedForm(index) == <<160 + index>>

\* C5: on a fresh field encoder the k-th distinct key passed to
\* yajbe_field_encode gets index k-1, and every later call with an equal key
\* emits the indexed form carrying that index and adds no entry.
C5_FirstSeenIndices ==
    \A j \in 1..Len(calls) :
        (calls[j].op = "field" /\ Fits(calls[j]))
            => IF calls[j].arg \notin KeysOf(j - 1)
               THEN calls[j].index = Cardinality(KeysOf(j - 1))
               ELSE /\ calls[j].index = FirstSeen(calls[j].arg)
                    /\ Emitted(calls[j]) = IndexedForm(FirstSeen(calls[j].arg))
                    /\ calls[j].count_to = calls[j].count

\* a key was passed a second time and did not come out in the indexed form
C5_RepeatNotIndexed ==
    \E j \in 1..Len(calls) :
        /\ calls[j].op = "field"
        /\ Fits(calls[j])
        /\ calls[j].arg \in KeysOf(j - 1)
        /\ calls[j].r = 0
        /\ Emitted(calls[j])[1] \div 32 # 5

\* C6: a call of yajbe_field_encode with a key that is not in the table,
\* made while the table holds entries_size keys, returns a negative code.
C6_FullTableOutOfSpace ==
    \A j \in 1..Len(calls) :
        (calls[j].op = "field" /\ calls[j].known < 0 /\ calls[j].count = fenc.entries_size)
            => calls[j].r < 0

\* a new key met a full table and the call reported success
C6_FullTableSuccess ==
    \E j \in 1..Len(calls) :
        /\ calls[j].op = "field"
        /\ calls[j].known < 0
        /\ calls[j].count = fenc.entries_size
        /\ calls[j].r = 0
        /\ calls[j].index < 0

\* C7: a call of yajbe_field_encode whose token has no room in the sink
\* returns a negative code.
C7_SinkFullOutOfSpace ==
    \A j \in 1..Len(calls) :
        (calls[j].op = "field" /\ ~Fits(calls[j])) => calls[j].r < 0

\* a token had no room, part of it is missing from the sink, and the call
\* reported success
C7_SinkFullSuccess ==
    \E j \in 1..Len(calls) :
        /\ calls[j].op = "field"
        /\ ~Fits(calls[j])
        /\ Lt64(Sub64(calls[j].to, calls[j].from), calls[j].need)
        /\ calls[j].r = 0

(***************************************************************************)
(* Integers: a producer encodes up to MaxInts integers, a consumer reads   *)
(* them back with yajbe_decode_next_int, or with yajbe_decode_next and     *)
(* yajbe_decode_int (tests/test-int.c).                                    *)
(***************************************************************************)
MaxInts == 2

INT64_MAX == <<B16 - 1, B16 - 1, B16 - 1, (B16 \div 2) - 1>>

INT64_MIN == <<0, 0, 0, B16 \div 2>>

\* the values around every change of form or width, and the extremes
IntInputs ==
    { I(0), I(1), I(24), I(25), I(280), I(281), I(65560), I(65561),
      I(16777240), I(16777241),
      <<24, 0, 1, 0>>, <<25, 0, 1, 0>>,
      <<24, 0, 0, 1>>, <<25, 0, 0, 1>>,
      INT64_MAX, Sub64(INT64_MAX, U(1)),
      I(0 - 1), I(0 - 23), I(0 - 24), I(0 - 279), I(0 - 280), I(0 - 65559), I(0 - 65560),
      Neg64(<<23, 0, 1, 0>>), Neg64(<<24, 0, 1, 0>>),
      Neg64(<<23, 0, 0, 1>>), Neg64(<<24, 0, 0, 1>>),
      Add64(INT64_MIN, U(1)), INT64_MIN }

\* what the build makes of the signed overflow in -value
Builds == {"wrap", "nowrap"}

IntSinkSize == 32

\* the field tables play no part where no field is encoded
Plain(bufsize) == Construct(bufsize, 2, DecEntries, ArenaSize)

InitInt == Plain(U(IntSinkSize))

NextInt ==
    \/ \E value \in IntInputs, ub \in Builds : Len(calls) < MaxInts /\ EncodeInt(value, ub)
    \/ StartDecode
    \/ DecodeNextInt
    \/ DecodeNext
    \/ DecodeInt

SpecInt == InitInt /\ [][NextInt]_vars

\* C2: yajbe_encode_int(v) followed by yajbe_decode_next_int on the produced
\* bytes returns 0 and stores exactly v, for every 64-bit signed v.
C2_IntRoundTrip ==
    \A i \in 1..Len(results) :
        (results[i].op = "next_int" /\ calls[results[i].call].r = 0)
            => /\ results[i].r = 0
               /\ results[i].v = Some(calls[results[i].call].arg)

\* INT64_MIN was encoded without error and read back as another value
C2_MinMismatch ==
    \E i \in 1..Len(results) :
        /\ results[i].op = "next_int"
        /\ calls[results[i].call].arg = INT64_MIN
        /\ calls[results[i].call].r = 0
        /\ results[i].r = 0
        /\ results[i].v # Some(INT64_MIN)

(***************************************************************************)
(* Strings and byte strings: a producer encodes up to MaxStrings of them,  *)
(* a consumer reads each back with yajbe_decode_next and then              *)
(* yajbe_decode_string / yajbe_decode_bytes into a buffer as large as the  *)
(* sink.                                                                   *)
(***************************************************************************)
MaxStrings == 2

\* 2^32 as a word
Pow32 == <<0, 0, 1, 0>>

\* the lengths around every change of form or width
StringLengths ==
    { U(1), U(59), U(60), U(314), U(315), U(65594), U(65595),
      U(16777274), U(16777275),
      Add64(Pow32, U(58)), Add64(Pow32, U(59)), Add64(Pow32, Pow32) }

\* "", "ab", "aab...b" with 59 b's, and a run of 'a' of each length above
StringInputs ==
    { <<>>, MemCat(Run(97, U(1)), Run(98, U(1))), MemCat(Run(97, U(2)), Run(98, U(59))) }
        \cup { Run(97, n) : n \in StringLengths }

\* 2^34 bytes: room for every input
StringSinkSize == <<0, 0, 4, 0>>

InitString == Plain(StringSinkSize)

NextString ==
    \/ \E utf8 \in StringInputs : Len(calls) < MaxStrings /\ EncodeString(utf8)
    \/ \E buf \in StringInputs : Len(calls) < MaxStrings /\ EncodeBytes(buf)
    \/ StartDecode
    \/ DecodeNext
    \/ DecodeString(writer.bufsize)
    \/ DecodeBytes(writer.bufsize)

SpecString == InitString /\ [][NextString]_vars

\* the consumer read the token of call c from its first byte
AtToken(res) == res.from = calls[res.call].from

\* the typed read results[i] follows the decode_next made at its token
AfterNext(i) ==
    /\ i > 1
    /\ results[i - 1].op = "next"
    /\ results[i - 1].call = results[i].call
    /\ AtToken(results[i - 1])
    /\ results[i - 1].r >= 0

\* the kind and form the wire table gives a string or byte string of length L
FramedKind(op, L) ==
    IF op = "string"
    THEN (IF Le64(L, U(59)) THEN YAJBE_SMALL_STRING ELSE YAJBE_STRING)
    ELSE (IF Le64(L, U(59)) THEN YAJBE_SMALL_BYTES ELSE YAJBE_BYTES)

\* results[i] is what the claim says of the string or byte string of call c
StringReadBack(i) ==
    LET res == results[i]
        c == calls[res.call]
        L == MemLen(c.arg)
    IN  /\ (res.op = "next" /\ AtToken(res))
            => /\ res.r = FramedKind(c.op, L)
               /\ res.type = FramedKind(c.op, L)
               /\ res.length = L
        /\ (res.op \in {"string", "bytes"} /\ AfterNext(i))
            => /\ res.r = 0
               /\ res.v = Some(c.arg)

\* the greatest length whose excess over 59 fits the 4 continuation bytes
\* that the head's low bits 60..63 can announce: 59 + 2^32 - 1
MaxFramed == Add64(Pow32, U(58))

\* C3 (as stated): for every s of length L, 0 <= L < 2^64, that the sink took,
\* yajbe_decode_next after yajbe_encode_string(s) / yajbe_encode_bytes(s)
\* yields SMALL_STRING / SMALL_BYTES when L <= 59 and STRING / BYTES
\* otherwise, with item_length = L, and the following yajbe_decode_string /
\* yajbe_decode_bytes returns exactly the bytes of s.
C3_StringRoundTrip ==
    \A i \in 1..Len(results) :
        (calls[results[i].call].op \in {"string", "bytes"} /\ calls[results[i].call].r = 0)
            => StringReadBack(i)

\* C3 (amended): the same for every s of length L <= 59 + 2^32 - 1.
C3_StringRoundTripFramed ==
    \A i \in 1..Len(results) :
        (/\ calls[results[i].call].op \in {"string", "bytes"}
         /\ calls[results[i].call].r = 0
         /\ Le64(MemLen(calls[results[i].call].arg), MaxFramed))
            => StringReadBack(i)

\* a string of 59 + 2^32 - 1 bytes went through: STRING with four
\* continuation bytes, and read back whole
C3_LongestRead ==
    \E i \in 1..Len(results) :
        /\ results[i].op = "string"
        /\ AfterNext(i)
        /\ calls[results[i].call].arg = Run(97, MaxFramed)
        /\ results[i - 1].head = 255
        /\ results[i - 1].type = YAJBE_STRING
        /\ results[i].r = 0
        /\ results[i].v = Some(Run(97, MaxFramed))

(***************************************************************************)
(* One-byte tokens: null, the booleans and the container marks.            *)
(***************************************************************************)
MaxTokens == 3

TokenSinkSize == 8

InitToken == Plain(U(TokenSinkSize))

NextToken ==
    \/ Len(calls) < MaxTokens /\ EncodeNull
    \/ Len(calls) < MaxTokens /\ EncodeTrue
    \/ Len(calls) < MaxTokens /\ EncodeFalse
    \/ \E value \in {0, 1, 2} : Len(calls) < MaxTokens /\ EncodeBool(value)
    \/ Len(calls) < MaxTokens /\ EncodeArrayStart
    \/ Len(calls) < MaxTokens /\ EncodeArrayEnd
    \/ Len(calls) < MaxTokens /\ EncodeObjectStart
    \/ Len(calls) < MaxTokens /\ EncodeObjectEnd
    \/ StartDecode
    \/ DecodeNext
    \/ DecodeNextNull
    \/ DecodeNextBool

SpecToken == InitToken /\ [][NextToken]_vars

\* the calls that write the end-of-container sentinel
EndOps == {"array_end", "object_end"}

MaxPad == 2

PadBytes == {0, 1, 255}

RawSinkSize == 8

WriteU8(v) == Encode("u8", v, __mem_bytes_writer_write_byte(writer, v))

InitHead == Plain(U(RawSinkSize))

NextHead ==
    \/ \E h \in 0..255 : calls = <<>> /\ WriteU8(h)
    \/ \E b \in PadBytes : calls # <<>> /\ Len(calls) < 1 + MaxPad /\ WriteU8(b)
    \/ StartDecode
    \/ DecodeNext

SpecHead == InitHead /\ [][NextHead]_vars

\* the kind the wire table of the claim assigns to head byte h; NoKind for
\* the heads it does not list
NoKind == 0 - 1

WireKind(h) ==
    IF h = 0 THEN YAJBE_NULL
    ELSE IF h = 2 THEN YAJBE_FALSE
    ELSE IF h = 3 THEN YAJBE_TRUE
    ELSE IF h = 4 THEN YAJBE_FLOAT_VLE
    ELSE IF h = 5 THEN YAJBE_FLOAT_32
    ELSE IF h = 6 THEN YAJBE_FLOAT_64
    ELSE IF h = 7 THEN YAJBE_BIG_DECIMAL
    ELSE IF h = 8 THEN YAJBE_ENUM_CONFIG
    ELSE IF h \in 9..10 THEN YAJBE_ENUM_STRING
    ELSE IF h \in 32..46 THEN YAJBE_ARRAY
    ELSE IF h = 47 THEN YAJBE_ARRAY_EOF
    ELSE IF h \in 48..62 THEN YAJBE_OBJECT
    ELSE IF h = 63 THEN YAJBE_OBJECT_EOF
    ELSE IF h \in 64..127
    THEN (IF h % 32 <= 23 THEN YAJBE_INT_SMALL
          ELSE IF h < 96 THEN YAJBE_INT_POSITIVE ELSE YAJBE_INT_NEGATIVE)
    ELSE IF h \in 128..191
    THEN (IF h % 64 <= 59 THEN YAJBE_SMALL_BYTES ELSE YAJBE_BYTES)
    ELSE IF h \in 192..255
    THEN (IF h % 64 <= 59 THEN YAJBE_SMALL_STRING ELSE YAJBE_STRING)
    ELSE NoKind

\* the 21 token kinds
Kinds == YAJBE_NULL..YAJBE_EOF

\* the byte the source held where the decoder call results[i] began
HeadRead(i) == MemAt(reader.buffer, results[i].from)

\* results[i] is a yajbe_decode_next that had a head byte to read
ReadHead(i) == results[i].op = "next" /\ Lt64(results[i].from, results[i].avail)

\* C9 (as stated): for every head byte h in 0..255, yajbe_decode_next sets
\* item_type to one of the 21 token kinds, never a value outside the kind
\* set, and to the kind the wire table assigns to h where it assigns one.
C9_EveryHeadHasKind ==
    \A i \in 1..Len(results) :
        ReadHead(i)
            => /\ results[i].head = HeadRead(i)
               /\ results[i].type \in Kinds
               /\ WireKind(HeadRead(i)) # NoKind => results[i].type = WireKind(HeadRead(i))

\* the heads the decode table leaves without a kind
Unassigned == 11..31

\* C9 (amended): yajbe_decode_next sets item_type to the kind the wire table
\* assigns to h for every h it lists, to EOF for 0x01, and to -1, which is
\* none of the 21 kinds, for every h in 0x0b..0x1f.
C9_HeadKinds ==
    \A i \in 1..Len(results) :
        ReadHead(i)
            => /\ results[i].head = HeadRead(i)
               /\ results[i].type =
                    (IF HeadRead(i) = 1 THEN YAJBE_EOF
                     ELSE IF HeadRead(i) \in Unassigned THEN NoKind
                     ELSE WireKind(HeadRead(i)))
               /\ (results[i].type \in Kinds) = (HeadRead(i) \notin Unassigned)

\* yajbe_decode_next read the head 0x0b and left item_type at -1
C9_UnassignedRead ==
    /\ Len(results) = 1
    /\ ReadHead(1)
    /\ HeadRead(1) = 11
    /\ results[1].type = NoKind

(***************************************************************************)
(* Truncated streams: the producer encodes up to MaxTrunc tokens and the   *)
(* consumer is given only the first bytes of them, any number from none to *)
(* all.                                                                    *)
(***************************************************************************)
MaxTrunc == 2

TruncSinkSize == 128

\* 1.0f and 1.0 as the bytes of their objects
FloatInputs == {MemOfSeq(<<0, 0, 128, 63>>)}

DoubleInputs == {MemOfSeq(<<0, 0, 0, 0, 0, 0, 240, 63>>)}

\* "ab", and a run of 60 'a' (one continuation byte)
TruncStrings == {MemCat(Run(97, U(1)), Run(98, U(1))), Run(97, U(60))}

TruncInts == {I(5), I(300), I(0 - 70000)}

\* "abcde", then "aaaaa"
TruncKeys == {<<97, 98, 99, 100, 101>>, <<97, 97, 97, 97, 97>>}

InitTrunc == Plain(U(TruncSinkSize))

NextTrunc ==
    \/ Len(calls) < MaxTrunc /\ EncodeNull
    \/ \E value \in {0, 1} : Len(calls) < MaxTrunc /\ EncodeBool(value)
    \/ \E value \in TruncInts, ub \in Builds : Len(calls) < MaxTrunc /\ EncodeInt(value, ub)
    \/ \E value \in FloatInputs : Len(calls) < MaxTrunc /\ EncodeFloat(value)
    \/ \E value \in DoubleInputs : Len(calls) < MaxTrunc /\ EncodeDouble(value)
    \/ \E utf8 \in TruncStrings : Len(calls) < MaxTrunc /\ EncodeString(utf8)
    \/ \E buf \in TruncStrings : Len(calls) < MaxTrunc /\ EncodeBytes(buf)
    \/ \E key \in TruncKeys : Len(calls) < MaxTrunc /\ EncodeField(key, 0)
    \/ \E n \in 0..NatOf(writer.offset) : StartDecodeWith(U(n))
    \/ DecodeNext
    \/ DecodeNextNull
    \/ DecodeNextBool
    \/ DecodeNextInt
    \/ DecodeNextFloat
    \/ DecodeNextDouble
    \/ DecodeNextString(writer.bufsize)
    \/ DecodeNextBytes(writer.bufsize)
    \/ \E g \in Garbage : DecodeField(g)

SpecTrunc == InitTrunc /\ [][NextTrunc]_vars

\* where yajbe_decode_next stops on the whole stream when it starts at the
\* token of call c: behind the head and the bytes of the count or length
NextEnd(c) ==
    yajbe_decode_next([z_mem_bytes_reader_init(writer.buffer, writer.offset)
                           EXCEPT !.offset = c.from],
                      yajbe_decoder_init).rd.offset

\* the decoder call results[i] began at the token of an encoder call that
\* succeeded, and the source ended before the bytes the call needs
Starved(i) ==
    LET res == results[i]
        c == calls[res.call]
    IN  /\ AtToken(res)
        /\ c.r = 0
        /\ Lt64(res.avail, IF res.op = "next" THEN NextEnd(c) ELSE c.to)

\* C8: a decode operation on a source that holds fewer bytes than it needs
\* returns a negative code; this holds for yajbe_decode_next, for every
\* yajbe_decode_next_<type> and for yajbe_field_decode.
C8_ShortSourceFails ==
    \A i \in 1..Len(results) : Starved(i) => results[i].r < 0

\* yajbe_decode_next_int met an empty source and returned 0 with nothing stored
C8_ShortSourceSuccess ==
    \E i \in 1..Len(results) :
        /\ Starved(i)
        /\ results[i].op = "next_int"
        /\ results[i].avail = results[i].from
        /\ results[i].r = 0
        /\ results[i].v = None

(***************************************************************************)
(* The document of examples/demo-yajbe.c: an array of one streamed object  *)
(* of up to MaxPairs (key, scalar) pairs.  The consumer steps over the two *)
(* container heads with yajbe_decode_next, then reads each pair with       *)
(* yajbe_decode_object_field and the yajbe_decode_next_<type> of its       *)
(* value, and leaves the terminator unread.                                *)
(***************************************************************************)
MaxPairs == 2

DemoSinkSize == 1024

DemoEntries == 16

DemoInts == {I(3), I(1234), I(0 - 543210)}

\* "foo"
DemoStrings == {MemCat(Run(102, U(1)), Run(111, U(2)))}

DemoStrBuf == 64

InitDemo == Construct(U(DemoSinkSize), DemoEntries, DecEntries, ArenaSize)

\* the pairs written so far, and whether the last of them lacks its value
Pairs == (Len(calls) - 2) \div 2

KeyOpen == calls # <<>> /\ Last(calls).op = "field"

Closed == calls # <<>> /\ Last(calls).op = "object_end"

InObject == Len(calls) >= 2 /\ ~Closed

NextDemo ==
    \/ calls = <<>> /\ EncodeArrayFixedLength(U(1))
    \/ Len(calls) = 1 /\ EncodeObjectStart
    \/ \E k \in KeyBuffers :
           InObject /\ ~KeyOpen /\ Pairs < MaxPairs /\ EncodeField(k.bytes, k.junk)
    \/ InObject /\ KeyOpen /\ EncodeNull
    \/ InObject /\ KeyOpen /\ EncodeTrue
    \/ InObject /\ KeyOpen /\ EncodeFalse
    \/ \E value \in DemoInts, ub \in Builds : InObject /\ KeyOpen /\ EncodeInt(value, ub)
    \/ \E utf8 \in DemoStrings : InObject /\ KeyOpen /\ EncodeString(utf8)
    \/ InObject /\ ~KeyOpen /\ EncodeObjectEnd
    \/ Closed /\ StartDecode
    \/ AtCall /\ calls[pos].op \in {"array", "object_start"} /\ DecodeNext
    \/ \E g \in Garbage : DecodeField(g)
    \/ DecodeNextNull
    \/ DecodeNextBool
    \/ DecodeNextInt
    \/ DecodeNextString(U(DemoStrBuf))

SpecDemo == InitDemo /\ [][NextDemo]_vars

\* results[i] is what the claim says the consumer sees of calls[i]
DemoSeen(i) ==
    LET res == results[i]
        c == calls[i]
    IN  IF c.op = "array"
        THEN res.type = YAJBE_ARRAY /\ res.length = c.arg
        ELSE IF c.op = "object_start"
        THEN res.type = YAJBE_OBJECT_EOF
        ELSE IF c.op = "field"
        THEN /\ res.r = 0
             /\ res.v # None
             /\ res.v[1].length = Len(c.arg)
             /\ res.v[1].bytes = c.arg
        ELSE IF c.op = "null"
        THEN res.r = 0
        ELSE IF c.op \in {"true", "false"}
        THEN res.r = 0 /\ res.v = Some(c.arg)
        ELSE res.r = 0 /\ res.v = Some(c.arg)

\* the consumer has read everything but the terminator
DemoDone == phase = "decode" /\ Len(results) = Len(calls) - 1

\* C4: for any sequence of (key, scalar) pairs written by the demo's calls,
\* the consumer sees ARRAY of length 1, a streamed OBJECT, then the same
\* keys and the same values in the same order, and exactly one byte, the
\* terminator 0x01, is left in the source.
C4_DemoRoundTrip ==
    /\ \A i \in 1..Len(results) : DemoSeen(i)
    /\ DemoDone
           => /\ Sub64(reader.bufsize, reader.offset) = U(1)
              /\ MemAt(reader.buffer, reader.offset) = 1

\* the demo's consumer finished a document of two pairs and a key came
\* back wrong
C4_DemoKeyWrong ==
    /\ DemoDone
    /\ Pairs = 2
    /\ \E i \in 1..Len(results) :
           /\ calls[i].op = "field"
           /\ results[i].r = 0
           /\ results[i].v # None
           /\ results[i].v[1].bytes # calls[i].arg

(***************************************************************************)
(* Containers and scalars in sequence: a producer writes up to MaxSeq      *)
(* tokens (fixed-length array and object heads, scalars, a terminator, a   *)
(* short string), a consumer steps through them with yajbe_decode_next,    *)
(* reading a string's bytes with yajbe_decode_string.                      *)
(***************************************************************************)
MaxSeq == 2

SeqSinkSize == 32

\* the item counts around every change of form or width, and 2^64 - 1
Counts ==
    { U(0), U(3), U(10), U(11), U(265), U(266), U(65545), U(65546),
      U(16777225), U(16777226),
      Add64(Pow32, U(9)), Add64(Pow32, U(10)),
      <<10, 0, 256, 0>>, <<10, 0, 0, 1>>, Not64(Zero64) }

\* "ab"
SeqStrings == {MemCat(Run(97, U(1)), Run(98, U(1)))}

InitSeq == Plain(U(SeqSinkSize))

NextSeq ==
    \/ Len(calls) < MaxSeq /\ EncodeNull
    \/ Len(calls) < MaxSeq /\ EncodeTrue
    \/ Len(calls) < MaxSeq /\ EncodeFalse
    \/ Len(calls) < MaxSeq /\ EncodeArrayEnd
    \/ \E utf8 \in SeqStrings : Len(calls) < MaxSeq /\ EncodeString(utf8)
    \/ \E length \in Counts : Len(calls) < MaxSeq /\ EncodeArrayFixedLength(length)
    \/ \E length \in Counts : Len(calls) < MaxSeq /\ EncodeObjectFixedLength(length)
    \/ StartDecode
    \/ DecodeNext
    \/ DecodeString(writer.bufsize)

SpecSeq == InitSeq /\ [][NextSeq]_vars

\* the kinds whose tokens carry neither a length nor a count
Scalars == {YAJBE_NULL, YAJBE_FALSE, YAJBE_TRUE, YAJBE_EOF}

\* C11: after any sequence of yajbe_decode_next calls on one decoder, when
\* the most recent call classified its token as NULL, FALSE, TRUE or EOF,
\* item_length is 0, whatever the earlier calls classified.
C11_ScalarLengthZero ==
    \A i \in 1..Len(results) :
        (results[i].op = "next" /\ results[i].r >= 0 /\ results[i].type \in Scalars)
            => results[i].length = Zero64

\* yajbe_decode_next classified a NULL right after a fixed-length array of
\* three items, and item_length is still 3
C11_StaleLength ==
    \E i \in 2..Len(results) :
        /\ results[i - 1].op = "next"
        /\ results[i - 1].type = YAJBE_ARRAY
        /\ results[i - 1].length = U(3)
        /\ results[i].op = "next"
        /\ results[i].r = YAJBE_NULL
        /\ results[i].type = YAJBE_NULL
        /\ results[i].length = U(3)

\* the kind of a fixed-length container head
CountKind(op) == IF op = "array" THEN YAJBE_ARRAY ELSE YAJBE_OBJECT

\* the head family of a container: 0x2- for arrays, 0x3- for objects
CountFamily(op) == IF op = "array" THEN 2 ELSE 3

\* results[i] is what the claim says of the fixed-length head of its call
CountReadBack(i) ==
    LET res == results[i]
        c == calls[res.call]
    IN  (res.op = "next" /\ AtToken(res))
            => /\ res.r = CountKind(c.op)
               /\ res.type = CountKind(c.op)
               /\ res.length = c.arg
               /\ res.head \div 16 = CountFamily(c.op)
               /\ res.head \notin {47, 63}

\* the greatest count whose excess over 10 fits the 4 continuation bytes
\* that the low nibbles 11..14 can announce: 10 + 2^32 - 1
MaxCount == Add64(Pow32, U(9))

\* C12 (as stated): for every item count c, 0 <= c < 2^64, yajbe_decode_next
\* after yajbe_encode_array_fixed_length(c) / yajbe_encode_object_fixed_length(c)
\* reports ARRAY / OBJECT with item_length = c, and the head byte stays in
\* its family and is never the streamed marker 0x2f / 0x3f.
C12_CountRoundTrip ==
    \A i \in 1..Len(results) :
        (calls[results[i].call].op \in {"array", "object"} /\ calls[results[i].call].r = 0)
            => CountReadBack(i)

\* C12 (amended): the same for every item count c <= 10 + 2^32 - 1.
C12_CountRoundTripFramed ==
    \A i \in 1..Len(results) :
        (/\ calls[results[i].call].op \in {"array", "object"}
         /\ calls[results[i].call].r = 0
         /\ Le64(calls[results[i].call].arg, MaxCount))
            => CountReadBack(i)

\* an array of 10 + 2^32 - 1 items went through: head 0x2e, four
\* continuation bytes, and the count read back
C12_LargestCountRead ==
    \E i \in 1..Len(results) :
        /\ results[i].op = "next"
        /\ AtToken(results[i])
        /\ calls[results[i].call].op = "array"
        /\ calls[results[i].call].arg = MaxCount
        /\ results[i].head = 46
        /\ results[i].type = YAJBE_ARRAY
        /\ results[i].length = MaxCount

(***************************************************************************)
(* The bytes of an integer token, as the wire format lays them out.        *)
(***************************************************************************)
\* the smallest w in 1..8 with v < 2^(8w), for a word v
MinWidth(v) ==
    CHOOSE w \in 1..8 :
        /\ \A k \in w..7 : ByteOf(v, k) = 0
        /\ (w = 1 \/ ByteOf(v, w - 1) # 0)

\* the w low bytes of the word v, least significant first
LittleEndian(v, w) == [k \in 1..w |-> ByteOf(v, k - 1)]

\* head, then the bytes of the magnitude m in its smallest width
WideInt(head, m) == <<head + 23 + MinWidth(m)>> \o LittleEndian(m, MinWidth(m))

\* the token of the int64 v
IntWire(v) ==
    IF SLt64(Zero64, v)
    THEN (IF SLe64(v, U(24)) THEN <<64 + NatOf(v) - 1>> ELSE WideInt(64, Sub64(v, U(25))))
    ELSE (IF SLe64(I(0 - 23), v) THEN <<96 + NatOf(Neg64(v))>>
          ELSE WideInt(96, Sub64(Neg64(v), U(24))))

\* C13: for every int64 v, yajbe_encode_int(v) writes exactly: 0x40 | (v - 1)
\* for 1 <= v <= 24; 0x40 | (23 + w) and the w little-endian bytes of v - 25
\* for v > 24; 0x60 | (-v) for -23 <= v <= 0; 0x60 | (23 + w) and the w
\* little-endian bytes of -v - 24 for v < -23; w the byte width of the
\* magnitude written.
C13_IntBytes ==
    \A j \in 1..Len(calls) :
        (calls[j].op = "int" /\ calls[j].r = 0) => Emitted(calls[j]) = IntWire(calls[j].arg)

\* yajbe_encode_int(INT64_MIN) returned 0 and wrote the single byte 0x60,
\* the token of 0
C13_MinAsZero ==
    \E j \in 1..Len(calls) :
        /\ calls[j].op = "int"
        /\ calls[j].arg = INT64_MIN
        /\ calls[j].r = 0
        /\ Emitted(calls[j]) = <<96>>
        /\ IntWire(calls[j].arg) = <<127, 232, 255, 255, 255, 255, 255, 255, 127>>

\* every other value of the model is written as the wire format says
C13_OthersExact ==
    \A j \in 1..Len(calls) :
        (calls[j].op = "int" /\ calls[j].r = 0 /\ calls[j].arg # INT64_MIN)
            => Emitted(calls[j]) = IntWire(calls[j].arg)

(***************************************************************************)
(* The key sequence of tests/test-field.c: encode_fields passes the names  *)
(* of TEST_FIELDS in order to a field encoder of 16 slots, decode_fields   *)
(* reads them back.  The sink is the caller's: the test passes 64 bytes.   *)
(***************************************************************************)
\* foo, bar, test_foo, test_bar, foo, prefix_foo_suffix, prefix_bar_suffix,
\* bar, test_foo
TEST_FIELDS ==
    << <<102, 111, 111>>,
       <<98, 97, 114>>,
       <<116, 101, 115, 116, 95, 102, 111, 111>>,
       <<116, 101, 115, 116, 95, 98, 97, 114>>,
       <<102, 111, 111>>,
       <<112, 114, 101, 102, 105, 120, 95, 102, 111, 111, 95, 115, 117, 102, 102, 105, 120>>,
       <<112, 114, 101, 102, 105, 120, 95, 98, 97, 114, 95, 115, 117, 102, 102, 105, 120>>,
       <<98, 97, 114>>,
       <<116, 101, 115, 116, 95, 102, 111, 111>> >>

TestEntries == 16

\* sizes of the caller's buffer: the test's 64 bytes, less and more
TestSinkSizes == {U(32), U(48), U(64), U(128)}

InitTest ==
    \E bufsize \in TestSinkSizes : Construct(bufsize, TestEntries, DecEntries, ArenaSize)

\* the keys are C string literals: a NUL follows each
NextTest ==
    \/ Len(calls) < Len(TEST_FIELDS) /\ EncodeField(TEST_FIELDS[Len(calls) + 1], 0)
    \/ StartDecode
    \/ \E g \in Garbage : DecodeField(g)

SpecTest == InitTest /\ [][NextTest]_vars

\* the head family of the token that call c left in the sink
Family(c) == Emitted(c)[1] \div 32

\* C14: encoding the keys of TEST_FIELDS in order on a fresh field encoder
\* emits an indexed token with index 0 for the fifth key "foo", a
\* prefix+suffix token (head family 111) for "test_bar" after "test_foo",
\* and a prefix+suffix token for "prefix_bar_suffix" after
\* "prefix_foo_suffix".
C14_TestTokens ==
    /\ (Len(calls) >= 5 /\ Fits(calls[5])) => Emitted(calls[5]) = IndexedForm(0)
    /\ (Len(calls) >= 4 /\ Fits(calls[4])) => Family(calls[4]) = 7
    /\ (Len(calls) >= 7 /\ Fits(calls[7])) => Family(calls[7]) = 7

\* all nine keys went into the test's 64 bytes; "test_bar" and
\* "prefix_bar_suffix" left prefix tokens (head family 110): c3 05 "bar" and
\* ca 07 "bar_suffix"
C14_PrefixTokens ==
    /\ Len(calls) = Len(TEST_FIELDS)
    /\ writer.bufsize = U(64)
    /\ \A j \in 1..Len(calls) : Fits(calls[j]) /\ calls[j].r = 0
    /\ Emitted(calls[5]) = IndexedForm(0)
    /\ Emitted(calls[4]) = <<195, 5, 98, 97, 114>>
    /\ Emitted(calls[7]) = <<202, 7, 98, 97, 114, 95, 115, 117, 102, 102, 105, 120>>

(***************************************************************************)
(* Key buffers after the call.  __field_name_entry_set keeps the caller's  *)
(* pointer in the table entry and __field_name_entry_equals reads through  *)
(* it on every later lookup; last_key is the pointer of the latest call.   *)
(* The caller writes over a buffer it passed to a call before the latest   *)
(* one.                                                                    *)
(***************************************************************************)
MaxAlias == 3

\* "foo", "bar", "fob"
AliasKeys == { <<102, 111, 111>>, <<98, 97, 114>>, <<102, 111, 98>> }

\* what the caller fills a buffer it uses again with: NULs, or 'z's
Scribbles == {0, 122}

AliasSinkSize == 64

InitAlias == Construct(U(AliasSinkSize), TestEntries, DecEntries, ArenaSize)

\* the caller's memory with the bytes of buffer i replaced by b
Scribbled(i, b) == [keymem EXCEPT ![i].bytes = [k \in 1..Len(@) |-> b]]

OverwriteKey(i, b) ==
    /\ phase = "encode"
    /\ i < Len(keymem)
    /\ keymem[i].bytes # Scribbled(i, b)[i].bytes
    /\ keymem' = Scribbled(i, b)
    /\ UNCHANGED <<writer, fenc, calls, phase>>
    /\ ConsumerUnchanged

NextAlias ==
    \/ \E key \in AliasKeys : Len(calls) < MaxAlias /\ EncodeField(key, 0)
    \/ \E i \in 1..MaxAlias, b \in Scribbles : OverwriteKey(i, b)

SpecAlias == InitAlias /\ [][NextAlias]_vars

\* the caller's memory had no buffer been written over
Pristine == [j \in 1..Len(calls) |-> [bytes |-> calls[j].arg, junk |-> keymem[j].junk]]

\* the encoder and the sink after the first n calls on the untouched memory
RECURSIVE Untouched(_)
Untouched(n) ==
    IF n = 0
    THEN [fe |-> yajbe_field_encoder_init_fixed(fenc.entries_size),
          w |-> z_mem_bytes_writer_init_fixed(writer.bufsize)]
    ELSE Let(Untouched(n - 1), LAMBDA p :
             yajbe_field_encode(p.fe, p.w, Pristine, n, Len(calls[n].arg)))

\* the index the table gives the key of call n after that call, on the untouched memory
UntouchedIndex(n) ==
    yajbe_field_encoder_hget(Untouched(n).fe, Pristine, __hash_fnv_1a(calls[n].arg),
                             n, Len(calls[n].arg))

\* C15: what a field-encode call emits and what the table answers depend
\* on the bytes of the key buffers of that call and of the call before it
\* only: writing over the buffer of an earlier call, once the next call
\* has returned, changes no later token and no later index lookup.
C15_EarlierKeysFree ==
    \A n \in 1..Len(calls) :
        /\ Emitted(calls[n]) = SeqOfMem(MemRead(Untouched(n).w.buffer, calls[n].from,
                                                Sub64(calls[n].to, calls[n].from)))
        /\ calls[n].index = UntouchedIndex(n)

\* "foo", "bar", then the buffer of the first call filled with 'z', then
\* "foo" from another buffer: the third call writes the full name again and
\* takes a third entry, where the untouched run writes the indexed token
C15_OverwrittenKeyMissed ==
    /\ Len(calls) = 3
    /\ calls[1].arg = <<102, 111, 111>>
    /\ calls[2].arg = <<98, 97, 114>>
    /\ calls[3].arg = <<102, 111, 111>>
    /\ keymem[1].bytes = <<122, 122, 122>>
    /\ keymem[2].bytes = calls[2].arg
    /\ Emitted(calls[3]) = <<131, 102, 111, 111>>
    /\ calls[3].index = 2
    /\ UntouchedIndex(3) = 0
    /\ fenc.entries_count = 3

(***************************************************************************)
(* Floats and doubles by their bit patterns (tests/test-float.c).  The     *)
(* encoder copies the object of the value, the decoder gathers a word from *)
(* the stream and copies its first bytes into the caller's variable; the   *)
(* host stores the least significant byte of a float, a double or an       *)
(* int64_t first, as the expected bytes of the test require.               *)
(***************************************************************************)
MaxFloats == 2

FloatSinkSize == 32

\* 0.0f, 1.0f, 1.1f, -32.26664f, a signalling NaN, all ones
FloatBits ==
    { U(0), <<0, 16256, 0, 0>>, <<52429, 16268, 0, 0>>, <<4362, 49665, 0, 0>>,
      <<1, 32640, 0, 0>>, <<65535, 65535, 0, 0>> }

\* 0.0, 1.0, -1.1, all ones
DoubleBits ==
    { U(0), <<0, 0, 0, 16368>>, <<39322, 39321, 39321, 49137>>, Not64(Zero64) }

\* the object of a value of n bytes with the bit pattern bits, as a memory
HostObject(bits, n) == MemOfSeq([k \in 1..n |-> ByteOf(bits, k - 1)])

EncodeFloatBits(bits) ==
    Encode("float", bits, yajbe_encode_float(writer, HostObject(bits, 4)))

EncodeDoubleBits(bits) ==
    Encode("double", bits, yajbe_encode_double(writer, HostObject(bits, 8)))

InitFloat == Plain(U(FloatSinkSize))

NextFloat ==
    \/ \E bits \in FloatBits : Len(calls) < MaxFloats /\ EncodeFloatBits(bits)
    \/ \E bits \in DoubleBits : Len(calls) < MaxFloats /\ EncodeDoubleBits(bits)
    \/ StartDecode
    \/ DecodeNextFloat
    \/ DecodeNextDouble

SpecFloat == InitFloat /\ [][NextFloat]_vars

\* the bit pattern of the object the decoder stored
BitsOf(v) == WordOfBytes(SeqOfMem(v[1]))

\* the width of the payload of a float or a double
FloatWidth(op) == IF op \in {"float", "next_float"} THEN 4 ELSE 8

\* C16: for every 32-bit pattern b, yajbe_encode_float of the float with
\* bits b writes exactly 5 bytes, 0x05 and the 4 bytes of b least
\* significant first, and yajbe_decode_next_float on those bytes returns a
\* float with the bit pattern b; likewise 0x06 and 8 bytes for
\* yajbe_encode_double and yajbe_decode_next_double.
C16_FloatBits ==
    /\ \A j \in 1..Len(calls) :
           /\ calls[j].r = 0
           /\ Emitted(calls[j]) =
                  <<IF calls[j].op = "float" THEN 5 ELSE 6>>
                      \o LittleEndian(calls[j].arg, FloatWidth(calls[j].op))
    /\ \A i \in 1..Len(results) :
           /\ results[i].r = 0
           /\ results[i].v # None
           /\ SeqOfMem(results[i].v[1]) =
                  LittleEndian(calls[results[i].call].arg, FloatWidth(results[i].op))
           /\ BitsOf(results[i].v) = calls[results[i].call].arg
           /\ results[i].to = calls[results[i].call].to

\* -32.26664f went out as 05 0a 11 01 c2 and came back, then -1.1 as
\* 06 9a 99 99 99 99 99 f1 bf and came back
C16_NegativeRoundTrip ==
    /\ Len(calls) = 2
    /\ Len(results) = 2
    /\ Emitted(calls[1]) = <<5, 10, 17, 1, 194>>
    /\ Emitted(calls[2]) = <<6, 154, 153, 153, 153, 153, 153, 241, 191>>
    /\ results[1].op = "next_float"
    /\ BitsOf(results[1].v) = <<4362, 49665, 0, 0>>
    /\ results[2].op = "next_double"
    /\ BitsOf(results[2].v) = <<39322, 39321, 39321, 49137>>

(***************************************************************************)
(* Booleans and null (tests/test-bool.c): up to MaxBools calls on a sink   *)
(* of the test's 32 bytes, or on one that is full after three.             *)
(***************************************************************************)
MaxBools == 4

BoolSinkSizes == {U(3), U(32)}

\* the C ints passed to yajbe_encode_bool
BoolInputs == {0, 1, 2, 256, 0 - 1}

InitBool == \E bufsize \in BoolSinkSizes : Plain(bufsize)

NextBool ==
    \/ Len(calls) < MaxBools /\ EncodeTrue
    \/ Len(calls) < MaxBools /\ EncodeFalse
    \/ \E value \in BoolInputs : Len(calls) < MaxBools /\ EncodeBool(value)
    \/ Len(calls) < MaxBools /\ EncodeNull

SpecBool == InitBool /\ [][NextBool]_vars

\* the byte the wire table gives the value of call c
BoolByte(c) ==
    IF c.op = "null" THEN 0
    ELSE IF c.op = "true" THEN 3
    ELSE IF c.op = "false" THEN 2
    ELSE (IF c.arg # 0 THEN 3 ELSE 2)

\* the sink had a free cell when call c was made
HadRoom(c) == Lt64(c.from, writer.bufsize)

\* C17: any sequence of yajbe_encode_true / yajbe_encode_false /
\* yajbe_encode_bool(x) / yajbe_encode_null calls on one sink produces
\* exactly one byte per call, in call order (0x03 for true, 0x02 for false,
\* 0x00 for null): each call writes only at the sink's cursor, advances it
\* by one and leaves every byte written before unchanged.  (A call on a
\* full sink fails and writes nothing.)
C17_OneBytePerCall ==
    /\ \A j \in 1..Len(calls) :
           HadRoom(calls[j]) =>
               /\ calls[j].r = 0
               /\ calls[j].from = U(j - 1)
               /\ calls[j].to = U(j)
    /\ SeqOfMem(writer.buffer) =
           [k \in 1..NatOf(writer.bufsize) |->
               IF k <= NatOf(writer.offset) THEN BoolByte(calls[k]) ELSE Undef]
    /\ Le64(writer.offset, U(Len(calls)))

\* the calls of the test, in its 32 bytes: true, false, bool(1), bool(0)
\* left 03 02 03 02 and nothing else
C17_TestBytes ==
    /\ writer.bufsize = U(32)
    /\ Len(calls) = 4
    /\ calls[1].op = "true"
    /\ calls[2].op = "false"
    /\ calls[3].op = "bool" /\ calls[3].arg = 1
    /\ calls[4].op = "bool" /\ calls[4].arg = 0
    /\ writer.offset = U(4)
    /\ SeqOfMem(MemRead(writer.buffer, Zero64, U(4))) = <<3, 2, 3, 2>>
    /\ \A k \in 5..32 : MemAt(writer.buffer, U(k - 1)) = Undef

(***************************************************************************)
(* The in-memory sink and source by themselves: up to MaxWrites calls of   *)
(* the three write primitives, then up to MaxReads calls of the four read  *)
(* primitives on what was written.  The record of a read keeps the width   *)
(* or length asked for beside what was stored.                             *)
(***************************************************************************)
MaxWrites == 2

MaxReads == 2

IoSinkSize == 4

\* 0x0807060504030201
IoValue == <<513, 1027, 1541, 2055>>

IoWidths == {1, 3, 8}

\* the caller's buffers: none, "bb", "ccccc"
IoBuffers == {<<>>, Run(98, U(2)), Run(99, U(5))}

\* lengths asked of the source; the caller's buffer of read_bytes holds them
IoLengths == {U(0), U(2), U(5)}

\* read_slice takes no buffer of the caller: any size_t can be asked for
SliceLengths == IoLengths \cup {Not64(Zero64)}

WriteUint(value, width) ==
    Encode("uint", [value |-> value, width |-> width],
           __mem_bytes_writer_write_uint(writer, value, width))

WriteBytes(buf) ==
    Encode("raw", buf, __mem_bytes_writer_write_bytes(writer, buf, MemLen(buf)))

\* a read primitive that was asked for length bytes and yielded x
Read(op, length, x) ==
    /\ phase = "decode"
    /\ Len(results) < MaxReads
    /\ Decode(op, [r |-> x.r, rd |-> x.rd, d |-> decoder,
                   v |-> [length |-> length, out |-> x.v]])

ReadU8 == Read("u8", U(1), __mem_bytes_reader_read_byte(reader))

ReadUint(width) == Read("uint", U(width), __mem_bytes_reader_read_uint(reader, width))

ReadBytes(length) == Read("raw", length, __mem_bytes_reader_read_bytes(reader, length))

ReadSlice(length) == Read("slice", length, __mem_bytes_reader_read_slice(reader, length))

InitIo == Plain(U(IoSinkSize))

NextIo ==
    \/ Len(calls) < MaxWrites /\ WriteU8(7)
    \/ \E width \in IoWidths : Len(calls) < MaxWrites /\ WriteUint(IoValue, width)
    \/ \E buf \in IoBuffers : Len(calls) < MaxWrites /\ WriteBytes(buf)
    \/ StartDecode
    \/ ReadU8
    \/ \E width \in IoWidths : ReadUint(width)
    \/ \E length \in IoLengths : ReadBytes(length)
    \/ \E length \in SliceLengths : ReadSlice(length)

SpecIo == InitIo /\ [][NextIo]_vars

\* the width or length call c asked the sink for
Asked(c) ==
    IF c.op = "u8" THEN U(1)
    ELSE IF c.op = "uint" THEN U(c.arg.width)
    ELSE MemLen(c.arg)

\* the cursor went from `from` to `to` over exactly n cells, all below cap
Advanced(from, to, n, cap) ==
    /\ to = Add64(from, n)
    /\ Le64(from, to)
    /\ Le64(to, cap)

\* call j of the sink did what the claim says: it succeeded and advanced
\* the cursor by what was asked, or failed with ENOSPC and left the cursor
\* and the buffer as the call before it had left them
SinkCallExact(j) ==
    \/ /\ calls[j].r = 0
       /\ Advanced(calls[j].from, calls[j].to, Asked(calls[j]), writer.bufsize)
    \/ /\ calls[j].r = 0 - ENOSPC
       /\ calls[j].to = calls[j].from

SourceCallExact(i) ==
    \/ /\ results[i].r = 0
       /\ Advanced(results[i].from, results[i].to, results[i].v.length, results[i].avail)
    \/ /\ results[i].r = 0 - ENOSPC
       /\ results[i].to = results[i].from

\* C18: for the in-memory sink and source, every write_u8 / write_uint /
\* write_bytes / read_u8 / read_uint / read_bytes / read_slice call either
\* succeeds and advances the cursor by exactly the width or length asked
\* for, or returns OutOfSpace and leaves the cursor (and, for the sink, the
\* buffer content) unchanged; in every reachable state the cursor is at
\* most the capacity.
C18_AllOrNothing ==
    /\ \A j \in 1..Len(calls) : SinkCallExact(j)
    /\ \A i \in 1..Len(results) : SourceCallExact(i)
    /\ Le64(writer.offset, writer.bufsize)
    /\ Le64(reader.offset, reader.bufsize)

\* the sink half of C18 as a step property: a failed write changes nothing
C18_FailedWriteKeepsSink ==
    [][(Len(calls') > Len(calls) /\ Last(calls').r # 0) => writer' = writer]_vars

\* every call but a read_slice of 2^64 - 1 bytes is as C18 says
C18_OthersExact ==
    /\ \A j \in 1..Len(calls) : SinkCallExact(j)
    /\ \A i \in 1..Len(results) :
           results[i].v.length # Not64(Zero64) => SourceCallExact(i)
    /\ Le64(writer.offset, writer.bufsize)
    /\ Le64(reader.offset, reader.bufsize)

\* read_slice(2^64 - 1) after two bytes were read from a source of four:
\* the call returns 0, the cursor goes back to 1 and the slice stored
\* claims 2^64 - 1 bytes from offset 2
C18_SliceWraps ==
    /\ Len(results) = 2
    /\ reader.bufsize = U(4)
    /\ results[1].op = "raw" /\ results[1].r = 0 /\ results[1].to = U(2)
    /\ results[2].op = "slice"
    /\ results[2].v.length = Not64(Zero64)
    /\ results[2].r = 0
    /\ results[2].from = U(2)
    /\ results[2].to = U(1)
    /\ results[2].v.out = [buffer |-> U(2), length |-> Not64(Zero64)]

(***************************************************************************)
(* __int_bytes_width by itself, on the values at which the width changes.  *)
(***************************************************************************)
MaxWidths == 2

\* 0, 1, and 2^(8k) - 1 and 2^(8k) for k = 1..7, 2^63, 2^64 - 1
WidthInputs ==
    { U(0), U(1), U(255), U(256), U(65535), U(65536),
      <<65535, 255, 0, 0>>, <<0, 256, 0, 0>>,
      <<65535, 65535, 0, 0>>, <<0, 0, 1, 0>>,
      <<65535, 65535, 255, 0>>, <<0, 0, 256, 0>>,
      <<65535, 65535, 65535, 0>>, <<0, 0, 0, 1>>,
      <<65535, 65535, 65535, 255>>, <<0, 0, 0, 256>>,
      <<0, 0, 0, 32768>>, Not64(Zero64) }

\* the encoder takes the width of value; the sink is not touched
Width(value) ==
    /\ phase = "encode"
    /\ calls' = Append(calls, [op |-> "width", arg |-> value, r |-> __int_bytes_width(value),
                               from |-> writer.offset, to |-> writer.offset])
    /\ UNCHANGED <<writer, fenc, keymem, phase>>
    /\ ConsumerUnchanged

InitWidth == Plain(U(IntSinkSize))

NextWidth == \E value \in WidthInputs : Len(calls) < MaxWidths /\ Width(value)

SpecWidth == InitWidth /\ [][NextWidth]_vars

\* v < 2^(8w): the bytes of v from the w-th on are zero
Below(v, w) == \A k \in w..7 : ByteOf(v, k) = 0

\* C19: byte_width(0) = 1 and, for every v with 0 < v < 2^64, byte_width(v)
\* is the smallest w in 1..8 with v < 2^(8w).
C19_SmallestWidth ==
    \A j \in 1..Len(calls) :
        IF calls[j].arg = Zero64
        THEN calls[j].r = 1
        ELSE /\ calls[j].r \in 1..8
             /\ Below(calls[j].arg, calls[j].r)
             /\ \A w \in 1..(calls[j].r - 1) : ~Below(calls[j].arg, w)

\* the width of 2^32 - 1 is 4, that of 2^32 is 5
C19_FourThenFive ==
    /\ Len(calls) = 2
    /\ calls[1].arg = <<65535, 65535, 0, 0>> /\ calls[1].r = 4
    /\ calls[2].arg = <<0, 0, 1, 0>> /\ calls[2].r = 5

(***************************************************************************)
(* The suffix yajbe_field_hencode computes (under SpecField).  When call j *)
(* is made, last_key is the buffer of call j - 1, whichever form that call *)
(* took.                                                                   *)
(***************************************************************************)
\* the fields of the encoder that __prefix and __suffix read, before call j
LastKeyAt(j) == [last_key |-> j - 1, last_keylen |-> Len(calls[j - 1].arg)]

\* prefix and suffix as lines 184 and 185 compute them in call j
PrefixAt(j) == Min(255, __prefix(LastKeyAt(j), keymem, j, Len(calls[j].arg)))

SuffixAt(j) ==
    __suffix(LastKeyAt(j), keymem, j, PrefixAt(j), Len(calls[j].arg) - PrefixAt(j))

\* the length of the longest common suffix of the sequences a and b
CommonSuffix(a, b) ==
    CHOOSE n \in 0..Min(Len(a), Len(b)) :
        /\ \A i \in 1..n : a[Len(a) - i + 1] = b[Len(b) - i + 1]
        /\ (n = Min(Len(a), Len(b)) \/ a[Len(a) - n] # b[Len(b) - n])

\* s without its first n elements
From(s, n) == SubSeq(s, n + 1, Len(s))

\* call j took the branch that computes a prefix and a suffix
Delta(j) == j > 1 /\ calls[j].known < 0 /\ Len(calls[j - 1].arg) > 4

\* C20: for every non-indexed key K encoded while last_key is set with a
\* length above 4, the suffix the encoder computes is the length of the
\* longest common suffix of last_key[prefix..] and K[prefix..], clamped to
\* 255, where prefix is the common-prefix length computed: the suffix
\* never overlaps the prefix and never counts a position where the two
\* keys differ.
C20_SuffixIsLongest ==
    \A j \in 1..Len(calls) :
        Delta(j) =>
            Min(255, SuffixAt(j)) =
                Min(255, CommonSuffix(From(calls[j - 1].arg, PrefixAt(j)),
                                      From(calls[j].arg, PrefixAt(j))))

\* "xbcde" after "abcde": the prefix is 0, the keys share the four bytes
\* "bcde", and the suffix computed is 5: the token written is e0 00 05,
\* with no byte of the name
C20_CountsDifferingByte ==
    /\ Len(calls) = 2
    /\ writer.bufsize = U(64)
    /\ calls[1].arg = <<97, 98, 99, 100, 101>>
    /\ calls[2].arg = <<120, 98, 99, 100, 101>>
    /\ Delta(2)
    /\ PrefixAt(2) = 0
    /\ SuffixAt(2) = 5
    /\ CommonSuffix(calls[1].arg, calls[2].arg) = 4
    /\ Emitted(calls[2]) = <<224, 0, 5>>

(***************************************************************************)
(* Framing of the field tokens (under SpecField): what the consumer reads  *)
(* for a token against what the producer wrote for it.                     *)
(***************************************************************************)
\* C21: for every key sequence, the bytes yajbe_field_decode consumes for
\* the i-th token are exactly the bytes yajbe_field_encode wrote for the
\* i-th key: after the first i tokens are decoded the reader's offset is
\* the writer's offset after the first i keys were encoded (given room in
\* the sink, the tables and the arena).
C21_SameFraming ==
    \A i \in 1..Len(results) :
        (results[i].op = "field" /\ FieldRoom)
            => /\ results[i].from = calls[i].from
               /\ results[i].to = calls[i].to

\* "aaaaabbb" after "aaaaa": the token e0 05 03 declares no name byte and
\* five bytes follow it ("bbb" and the two cells behind the key); the
\* consumer stops behind the third byte of the eight written
C21_BytesBehindToken ==
    /\ FieldRoom
    /\ Len(calls) = 2
    /\ Len(results) = 2
    /\ calls[1].arg = <<97, 97, 97, 97, 97>>
    /\ calls[2].arg = <<97, 97, 97, 97, 97, 98, 98, 98>>
    /\ keymem[2].junk = 0
    /\ Emitted(calls[2]) = <<224, 5, 3, 98, 98, 98, 0, 0>>
    /\ results[2].from = calls[2].from
    /\ results[2].to = Add64(calls[2].from, U(3))
    /\ calls[2].to = Add64(calls[2].from, U(8))

(***************************************************************************)
(* The two dictionaries (under SpecField): the producer's table against    *)
(* the consumer's entries, once every token written was decoded.           *)
(***************************************************************************)
\* the bytes of the length cells at the key pointer name
KeyBytes(name, length) == [k \in 1..length |-> CharAt(keymem, name, k - 1)]

\* the slots of the producer's table that hold a key
Stored == {s \in DOMAIN fenc.entries : fenc.entries[s].name # NULL}

\* the key the producer stored with index i
EncoderKey(i) ==
    LET e == fenc.entries[CHOOSE s \in Stored : fenc.entries[s].index = i]
    IN  KeyBytes(e.name, e.length)

\* every token written was decoded, and no call reported an error
AllDecoded ==
    /\ phase = "decode"
    /\ Len(results) = Len(calls)
    /\ \A i \in 1..Len(calls) :
           calls[i].op = "field" /\ calls[i].r = 0 /\ results[i].r = 0

\* C22: after any number of field tokens encoded by one field encoder and
\* decoded in the same order by one field decoder without error, the two
\* dictionaries agree: the entries_count of both are equal, the key the
\* encoder stored with index i is byte-equal to decoder entry i for every
\* i below entries_count, and the encoder's last_key is byte-equal to the
\* decoder's last_field (also after an indexed token).
C22_DictionariesAgree ==
    AllDecoded =>
        /\ fenc.entries_count = fdec.entries_count
        /\ \A i \in 0..(fenc.entries_count - 1) :
               /\ \E s \in Stored : fenc.entries[s].index = i
               /\ EncoderKey(i) = FieldBytes(fdec, fdec.entries[i + 1])
        /\ KeyBytes(fenc.last_key, fenc.last_keylen) = FieldBytes(fdec, fdec.last_field)

\* "abcde" then "xbcde" went through without error and with room
\* everywhere: both sides count two entries, the producer holds "xbcde"
\* under index 1 and as last_key, the consumer holds "abcde" in both places
C22_SecondEntryDiffers ==
    /\ AllDecoded
    /\ FieldRoom
    /\ Len(calls) = 2
    /\ fenc.entries_count = 2
    /\ fdec.entries_count = 2
    /\ EncoderKey(0) = <<97, 98, 99, 100, 101>>
    /\ EncoderKey(1) = <<120, 98, 99, 100, 101>>
    /\ FieldBytes(fdec, fdec.entries[1]) = <<97, 98, 99, 100, 101>>
    /\ FieldBytes(fdec, fdec.entries[2]) = <<97, 98, 99, 100, 101>>
    /\ KeyBytes(fenc.last_key, fenc.last_keylen) = <<120, 98, 99, 100, 101>>
    /\ FieldBytes(fdec, fdec.last_field) = <<97, 98, 99, 100, 101>>

(***************************************************************************)
(* The length or index of a field token: __write_length with a head family *)
(* and a number, then the head byte and __read_length as                   *)
(* yajbe_field_decode and the four readers make them; and                  *)
(* yajbe_field_hencode with a first name at the end of the long form and   *)
(* one byte beyond it.                                                     *)
(***************************************************************************)
MaxLens == 2

LenSinkSize == 70000

\* full name, indexed, prefix, prefix+suffix
LenHeads == {128, 160, 192, 224}

\* both ends of the three forms, a number whose two bytes differ, and two
\* numbers beyond the forms
LenInputs == {0, 29, 30, 284, 285, 540, 65819, 65820, 70000}

\* lengths of a name: the longest the long form holds, and one more
NameLengths == {65819, 65820}

\* the hash the caller of yajbe_field_hencode passes for its name
NameHash == <<1, 2, 3, 4>>

WriteLength(head, n) ==
    Encode("length", [head |-> head, n |-> n], __write_length(writer, head, n))

\* n bytes 'a', as a sequence
LongName(n) == SubSeq([k \in 1..n |-> 97], 1, n)

\* yajbe_field_hencode with a name of n bytes 'a'
EncodeName(n) ==
    Let(LongName(n), LAMBDA key :
    Let(WithKey(key, 0), LAMBDA mem :
        FieldCall(key, mem, NameHash,
                  yajbe_field_hencode(fenc, writer, mem, NameHash, Len(mem), n),
                  yajbe_field_hencode(fenc, Roomy(writer), mem, NameHash, Len(mem), n))))

\* the head byte, then the length behind it; yields [r, rd, d, v]
ReadHeadAndLength(rd, g) ==
    Let(__mem_bytes_reader_read_byte(rd), LAMBDA h :
    Let(IF h.r < 0 THEN g ELSE h.v, LAMBDA head :
    Let(__read_length(h.rd, head, g), LAMBDA l :
        [r |-> h.r, rd |-> l.rd, d |-> decoder,
         v |-> [head |-> head, length |-> l.v]])))

\* the consumer reads the numbers written by themselves
ReadLength(g) ==
    /\ phase = "decode"
    /\ \A j \in 1..Len(calls) : calls[j].op = "length"
    /\ Lt64(reader.offset, reader.bufsize)
    /\ Decode("length", ReadHeadAndLength(reader, g))

InitLen == Plain(U(LenSinkSize))

NextLen ==
    \/ \E head \in LenHeads, n \in LenInputs : Len(calls) < MaxLens /\ WriteLength(head, n)
    \/ \E n \in NameLengths : calls = <<>> /\ EncodeName(n)
    \/ StartDecode
    \/ \E g \in Garbage : ReadLength(g)

SpecLen == InitLen /\ [][NextLen]_vars

\* the bytes the claim gives the number n under the head family head
LengthWire(head, n) ==
    IF n <= 29 THEN <<head + n>>
    ELSE IF n <= 284 THEN <<head + 30, n - 29>>
    ELSE <<head + 31, (n - 284) \div 256, (n - 284) % 256>>

\* the number call j was to write: the number itself, or the length of the name
Number(j) == IF calls[j].op = "length" THEN calls[j].arg.n ELSE Len(calls[j].arg)

\* the head family call j was to write it under
HeadBits(j) == IF calls[j].op = "length" THEN calls[j].arg.head ELSE 128

\* the first bytes call c left in the sink, as many as wire has
Leading(c, wire) == SeqOfMem(MemRead(writer.buffer, c.from, U(Len(wire))))

\* what C23 says of the calls of the encoder
LengthWritten(j) ==
    IF Number(j) <= 65819
    THEN /\ calls[j].r = 0
         /\ Leading(calls[j], LengthWire(HeadBits(j), Number(j)))
                = LengthWire(HeadBits(j), Number(j))
    ELSE /\ calls[j].r < 0
         /\ calls[j].to = calls[j].from

\* what C23 says of the reads of the decoder
LengthRead(i) ==
    \A j \in 1..Len(calls) :
        (calls[j].op = "length" /\ calls[j].r = 0 /\ results[i].from = calls[j].from)
            => /\ results[i].r = 0
               /\ results[i].v.head = LengthWire(calls[j].arg.head, calls[j].arg.n)[1]
               /\ results[i].v.length = calls[j].arg.n
               /\ results[i].to = calls[j].to
               /\ Emitted(calls[j]) = LengthWire(calls[j].arg.head, calls[j].arg.n)

\* C23: for every n in 0..65819, the field length or index the encoder
\* writes with head bits H is read back by the field decoder as n, using 1
\* byte for n <= 29, 2 bytes (low 5 bits 30, then n - 29) for 30 <= n <=
\* 284, and 3 bytes (low 5 bits 31, then the two bytes of n - 284 most
\* significant first) for 285 <= n <= 65819; for n > 65819 the encoder
\* writes nothing and returns an error.
C23_LengthTiers ==
    /\ \A j \in 1..Len(calls) : LengthWritten(j)
    /\ \A i \in 1..Len(results) : LengthRead(i)

\* C23 for __write_length and __read_length by themselves
C23_HelperTiers ==
    /\ \A j \in 1..Len(calls) : calls[j].op = "length" => LengthWritten(j)
    /\ \A i \in 1..Len(results) : LengthRead(i)

\* 540 went out under the prefix family as df 01 00 and 65819 under the
\* indexed family as bf ff ff, and both were read back
C23_LongFormsRead ==
    /\ Len(calls) = 2
    /\ Len(results) = 2
    /\ calls[1].arg = [head |-> 192, n |-> 540]
    /\ calls[2].arg = [head |-> 160, n |-> 65819]
    /\ Emitted(calls[1]) = <<223, 1, 0>>
    /\ Emitted(calls[2]) = <<191, 255, 255>>
    /\ results[1].v = [head |-> 223, length |-> 540]
    /\ results[2].v = [head |-> 191, length |-> 65819]
    /\ results[2].to = writer.offset

\* a first name of 65820 bytes: yajbe_field_hencode returned 0, wrote the
\* 65820 bytes of the name with no head before them and entered the name
\* in the table
C23_HeadlessName ==
    /\ Len(calls) = 1
    /\ calls[1].op = "field"
    /\ Len(calls[1].arg) = 65820
    /\ calls[1].r = 0
    /\ calls[1].from = U(0)
    /\ calls[1].to = U(65820)
    /\ writer.buffer = <<[b |-> 97, n |-> U(65820)], [b |-> Undef, n |-> U(LenSinkSize - 65820)]>>
    /\ calls[1].count_to = 1

(***************************************************************************)
(* The producer's table by itself: yajbe_field_encoder_add and             *)
(* yajbe_field_encoder_get with keys the caller keeps as they are.  Up to  *)
(* MaxAdds keys are added, then keys are looked up.                        *)
(***************************************************************************)
MaxAdds == 5

MaxGets == 1

\* "a" .. "e": one more key than the largest table holds
TableKeys == {<<97>>, <<98>>, <<99>>, <<100>>, <<101>>}

Gets == {j \in 1..Len(calls) : calls[j].op = "get"}

\* the record of a call on the table with the key in the newest buffer of mem
TableCall(op, key, mem, r, fe) ==
    /\ phase = "encode"
    /\ keymem' = mem
    /\ fenc' = fe
    /\ calls' = Append(calls,
           [op |-> op, arg |-> key, r |-> r,
            from |-> writer.offset, to |-> writer.offset,
            known |-> yajbe_field_encoder_get(fenc, mem, Len(mem), Len(key)),
            index |-> yajbe_field_encoder_get(fe, mem, Len(mem), Len(key)),
            count |-> fenc.entries_count,
            count_to |-> fe.entries_count,
            steps |-> HaddSteps(fenc, mem, __hash_fnv_1a(key), Len(mem), Len(key),
                                HashIndex(__hash_fnv_1a(key), fenc.entries_size - 1),
                                0, fenc.entries_size + 1)])
    /\ UNCHANGED <<writer, phase>>
    /\ ConsumerUnchanged

AddResult(key, mem, res) == TableCall("add", key, mem, res.r, res.fe)

AddKey(key) ==
    AddResult(key, WithKey(key, 0),
              yajbe_field_encoder_add(fenc, WithKey(key, 0), Len(keymem) + 1, Len(key)))

GetKey(key) ==
    TableCall("get", key, WithKey(key, 0),
              yajbe_field_encoder_get(fenc, WithKey(key, 0), Len(keymem) + 1, Len(key)),
              fenc)

InitTable ==
    \E entries_size \in TableSizes :
        Construct(U(RawSinkSize), entries_size, DecEntries, ArenaSize)

NextTable ==
    \/ \E key \in TableKeys :
           Gets = {} /\ Len(calls) < MaxAdds /\ AddKey(key)
    \/ \E key \in TableKeys :
           Cardinality(Gets) < MaxGets /\ GetKey(key)

SpecTable == InitTable /\ [][NextTable]_vars

\* C24: in every reachable table state, a completely full table included,
\* yajbe_field_encoder_add of a key already stored returns that key's
\* index and leaves entries_count unchanged; adding a key not yet stored
\* to a table that is not full returns the previous entries_count and
\* increments entries_count by exactly one.
C24_AddReturnsIndex ==
    \A j \in 1..Len(calls) :
        calls[j].op = "add" =>
            /\ calls[j].known >= 0 =>
                   calls[j].r = calls[j].known /\ calls[j].count_to = calls[j].count
            /\ (calls[j].known < 0 /\ calls[j].count < fenc.entries_size) =>
                   calls[j].r = calls[j].count /\ calls[j].count_to = calls[j].count + 1

\* C24 for the tables that are not full
C24_AddWithRoom ==
    \A j \in 1..Len(calls) :
        (calls[j].op = "add" /\ calls[j].count < fenc.entries_size) =>
            /\ calls[j].known >= 0 =>
                   calls[j].r = calls[j].known /\ calls[j].count_to = calls[j].count
            /\ calls[j].known < 0 =>
                   calls[j].r = calls[j].count /\ calls[j].count_to = calls[j].count + 1

\* "a" and "b" fill a table of two slots; adding "a" again returns -ENOSPC
\* while yajbe_field_encoder_get finds it under index 0
C24_FullTableRejectsStoredKey ==
    /\ fenc.entries_size = 2
    /\ Len(calls) = 3
    /\ calls[1].op = "add" /\ calls[1].arg = <<97>> /\ calls[1].r = 0
    /\ calls[2].op = "add" /\ calls[2].arg = <<98>> /\ calls[2].r = 1
    /\ calls[3].op = "add" /\ calls[3].arg = <<97>>
    /\ calls[3].count = 2
    /\ calls[3].known = 0
    /\ calls[3].r = 0 - ENOSPC

\* the keys some yajbe_field_encoder_add accepted
Accepted == {calls[j].arg : j \in {i \in 1..Len(calls) : calls[i].op = "add" /\ calls[i].r >= 0}}

\* yajbe_field_encoder_get of a key in the table as it is now
GetNow(key) == yajbe_field_encoder_get(fenc, WithKey(key, 0), Len(keymem) + 1, Len(key))

\* the slot hash & mask of the key stored in slot s
HomeSlot(s) == HashIndex(fenc.entries[s].hash, fenc.entries_size - 1)

\* C25: for a table whose capacity is a power of two and any sequence of
\* add calls with keys hashed by yajbe_field_encoder_add, the probe of
\* every add ends within capacity steps, the stored indices are pairwise
\* distinct and exactly 0..entries_count-1, yajbe_field_encoder_get
\* returns the stored index of every key an add accepted and -1 for every
\* key never added, with keys that collide on hash & mask and with a full
\* table.
C25_TableSound ==
    /\ fenc.entries_count <= fenc.entries_size
    /\ Cardinality(Stored) = fenc.entries_count
    /\ {fenc.entries[s].index : s \in Stored} = 0..(fenc.entries_count - 1)
    /\ \A j \in 1..Len(calls) :
           /\ (calls[j].op = "add" /\ calls[j].count < fenc.entries_size) =>
                  /\ calls[j].steps <= fenc.entries_size
                  /\ calls[j].r >= 0
           /\ (calls[j].op = "add" /\ calls[j].r >= 0) =>
                  /\ calls[j].index = calls[j].r
                  /\ GetNow(calls[j].arg) = calls[j].r
           /\ calls[j].op = "get" =>
                  /\ calls[j].arg \in Accepted => calls[j].r \in 0..(fenc.entries_count - 1)
                  /\ calls[j].arg \notin Accepted => calls[j].r = 0 - 1
    /\ \A key \in Accepted :
           /\ GetNow(key) \in 0..(fenc.entries_count - 1)
           /\ EncoderKey(GetNow(key)) = key
    /\ \A key \in TableKeys \ Accepted : GetNow(key) = 0 - 1

\* a full table of four slots with a key away from its slot hash & mask, in
\* which a key never added is looked up
C25_FullTableMiss ==
    /\ fenc.entries_size = 4
    /\ fenc.entries_count = 4
    /\ \E s \in Stored : HomeSlot(s) # s
    /\ Gets # {}
    /\ Last(calls).op = "get"
    /\ Last(calls).arg \notin Accepted
    /\ Last(calls).r = 0 - 1

\* a key stored away from its slot hash & mask is found under its index
C25_DisplacedKeyFound ==
    /\ Gets # {}
    /\ Last(calls).op = "get"
    /\ Last(calls).r >= 0
    /\ \E s \in Stored :
           /\ HomeSlot(s) # s
           /\ fenc.entries[s].index = Last(calls).r
           /\ KeyBytes(fenc.entries[s].name, fenc.entries[s].length) = Last(calls).arg

(***************************************************************************)
(* The field decoder on tokens written byte by byte: a producer puts up to *)
(* MaxFieldTokens tokens of the four families into the sink, a consumer with a  *)
(* small table and a small arena calls yajbe_field_decode once per token.  *)
(***************************************************************************)
MaxFieldTokens == 3

FieldTokenSinkSize == 24

\* the consumer's table
TokenEntries == 2

\* the consumer's arenas, in bytes
TokenArenas == {4, 8}

\* full names "ab", "c" and "abcde"; indexes 0, 1 and 3; prefix 1 + "d" and
\* prefix 3 with nothing behind; prefix 1, suffix 1 around "x" and suffix 3
\* with nothing else
Tokens ==
    { <<130, 97, 98>>, <<129, 99>>, <<133, 97, 98, 99, 100, 101>>,
      <<160>>, <<161>>, <<163>>,
      <<193, 1, 100>>, <<192, 3>>,
      <<225, 1, 1, 120>>, <<224, 0, 3>> }

WriteToken(t) ==
    Encode("token", t, __mem_bytes_writer_write_bytes(writer, MemOfSeq(t), U(Len(t))))

\* the yajbe_field_decode call that yielded res, with the decoder before
\* and after it
TokenResult(res) ==
    /\ phase = "decode"
    /\ Len(results) < Len(calls)
    /\ reader' = res.rd
    /\ fdec' = res.fd
    /\ results' = Append(results,
           [op |-> "token", call |-> pos, r |-> res.r,
            v |-> FieldSeen(res.fd, res.field),
            field |-> res.field,
            from |-> reader.offset, to |-> res.rd.offset, avail |-> reader.bufsize,
            fd_from |-> fdec, fd |-> res.fd])
    /\ pos' = pos + 1
    /\ UNCHANGED decoder
    /\ ProducerUnchanged

DecodeToken(g) == TokenResult(yajbe_field_decode(fdec, reader, g))

InitFieldToken ==
    \E arena \in TokenArenas : Construct(U(FieldTokenSinkSize), 2, TokenEntries, arena)

NextFieldToken ==
    \/ \E t \in Tokens : Len(calls) < MaxFieldTokens /\ WriteToken(t)
    \/ StartDecode
    \/ \E g \in Garbage : DecodeToken(g)

SpecFieldToken == InitFieldToken /\ [][NextFieldToken]_vars

\* the head byte the call of res read
TokenHead(res) == MemAt(writer.buffer, res.from)

TokenFamily(res) == BitAnd(TokenHead(res) \div 32, 7)

\* the bytes of the length behind the head
LengthBytes(head) == IF head % 32 < 30 THEN 0 ELSE IF head % 32 = 30 THEN 1 ELSE 2

\* the call of res found a head of the family and the bytes of its length
\* and `more` bytes behind it in the source
TokenOf(res, family, more) ==
    /\ Lt64(res.from, res.avail)
    /\ TokenFamily(res) = family
    /\ Le64(Add64(res.from, U(1 + LengthBytes(TokenHead(res)) + more)), res.avail)

\* the length or index of the token the call of res read
TokenLength(res) ==
    __read_length([reader EXCEPT !.offset = Add64(res.from, U(1))], TokenHead(res), 0).v

\* C26: decoding an indexed token (family 101) with index i < entries_count
\* returns entry i and sets last_field to entry i's name and length; it
\* leaves entries_count, every entry, the arena bytes and buf_off
\* unchanged.
C26_IndexedFrame ==
    \A i \in 1..Len(results) :
        (TokenOf(results[i], 5, 0)
            /\ TokenLength(results[i]) < results[i].fd_from.entries_count)
        => LET entry == results[i].fd_from.entries[TokenLength(results[i]) + 1]
           IN  /\ results[i].r = 0
               /\ results[i].field = Some(entry)
               /\ results[i].fd.last_field = [name |-> entry.name, length |-> entry.length]
               /\ results[i].fd.entries_count = results[i].fd_from.entries_count
               /\ results[i].fd.entries = results[i].fd_from.entries
               /\ results[i].fd.buffer = results[i].fd_from.buffer
               /\ results[i].fd.buf_off = results[i].fd_from.buf_off
               /\ results[i].fd.entries_size = results[i].fd_from.entries_size
               /\ results[i].fd.buf_size = results[i].fd_from.buf_size

\* "ab", "c", then index 0: the call hands back "ab" and last_field moves
\* from "c" to "ab"
C26_BackToFirstName ==
    /\ Len(results) = 3
    /\ TokenOf(results[3], 5, 0)
    /\ TokenLength(results[3]) = 0
    /\ results[3].fd_from.entries_count = 2
    /\ results[3].fd_from.last_field = [name |-> 2, length |-> 1]
    /\ results[3].r = 0
    /\ results[3].v = Some([name |-> 0, length |-> 2, bytes |-> <<97, 98>>])
    /\ fdec.last_field = [name |-> 0, length |-> 2]

\* the sum of the lengths of the first n entries of the decoder fd
RECURSIVE LengthsUpTo(_, _)
LengthsUpTo(fd, n) == IF n = 0 THEN 0 ELSE fd.entries[n].length + LengthsUpTo(fd, n - 1)

\* C27: in every reachable decoder state entries_count <= entries_size,
\* buf_off <= buf_size, buf_off is the sum of the lengths of the entries,
\* entry i occupies the arena bytes [offset_i, offset_i + length_i) that
\* follow the entries before it, and no later decode changes the name
\* pointer, the length or the bytes of an entry already appended.
C27_ArenaInvariant ==
    /\ fdec.entries_count <= fdec.entries_size
    /\ fdec.entries_count = Len(fdec.entries)
    /\ fdec.buf_off <= fdec.buf_size
    /\ fdec.buf_off = LengthsUpTo(fdec, fdec.entries_count)
    /\ \A k \in 1..fdec.entries_count :
           /\ fdec.entries[k].name = LengthsUpTo(fdec, k - 1)
           /\ fdec.entries[k].name + fdec.entries[k].length <= fdec.buf_off
    /\ \A i \in 1..Len(results) :
           results[i].op = "token" =>
               \A k \in 1..results[i].fd.entries_count :
                   /\ k <= fdec.entries_count
                   /\ fdec.entries[k] = results[i].fd.entries[k]
                   /\ FieldBytes(fdec, fdec.entries[k])
                          = FieldBytes(results[i].fd, results[i].fd.entries[k])

\* "ab", then prefix 1 + "d", fill an arena of four bytes; a third call has
\* been made and both names are where they were
C27_ArenaFilled ==
    /\ fdec.buf_size = 4
    /\ fdec.buf_off = 4
    /\ fdec.entries = <<[name |-> 0, length |-> 2], [name |-> 2, length |-> 2]>>
    /\ Len(results) = 3
    /\ results[1].fd.entries_count = 1
    /\ FieldBytes(fdec, fdec.entries[1]) = <<97, 98>>
    /\ FieldBytes(fdec, fdec.entries[2]) = <<97, 100>>

\* the bytes of the source the call of res started at
TokenByte(res, k) == MemAt(writer.buffer, Add64(res.from, U(k)))

\* the call of res found a whole head of a token that carries a name: the
\* head, its length and, by family, the prefix byte or the prefix and
\* suffix bytes
NameToken(res) ==
    \/ TokenOf(res, 4, 0)
    \/ TokenOf(res, 6, 1)
    \/ TokenOf(res, 7, 2)

\* the prefix and the suffix that token declares
TokenPrefix(res) ==
    IF TokenFamily(res) \in {6, 7}
    THEN TokenByte(res, 1 + LengthBytes(TokenHead(res)))
    ELSE 0

TokenSuffix(res) ==
    IF TokenFamily(res) = 7
    THEN TokenByte(res, 2 + LengthBytes(TokenHead(res)))
    ELSE 0

\* the length of the name that token declares
NameLength(res) == TokenPrefix(res) + TokenLength(res) + TokenSuffix(res)

\* the table of the decoder fd is full, or a name of n bytes does not fit
\* the rest of its arena
NoRoom(fd, n) ==
    \/ fd.entries_count = fd.entries_size
    \/ fd.buf_off + n > fd.buf_size

\* C28: yajbe_field_decode of a full-name, prefix or prefix+suffix token
\* returns OutOfSpace when entries_count = entries_size or when the name
\* does not fit the remaining arena, and then entries_count, buf_off,
\* last_field and all entries are unchanged.
C28_OutOfSpaceFrame ==
    \A i \in 1..Len(results) :
        (NameToken(results[i]) /\ NoRoom(results[i].fd_from, NameLength(results[i])))
        => /\ results[i].r = 0 - ENOSPC
           /\ results[i].fd.entries_count = results[i].fd_from.entries_count
           /\ results[i].fd.buf_off = results[i].fd_from.buf_off
           /\ results[i].fd.last_field = results[i].fd_from.last_field
           /\ results[i].fd.entries = results[i].fd_from.entries
           /\ results[i].fd.buffer = results[i].fd_from.buffer

\* the calls that return OutOfSpace are those
C28_OnlyThen ==
    \A i \in 1..Len(results) :
        (NameToken(results[i]) /\ results[i].r = 0 - ENOSPC)
            => NoRoom(results[i].fd_from, NameLength(results[i]))

\* "ab" then "abcde" on an arena of four bytes: the table has a free entry,
\* the second call returns OutOfSpace and the decoder is as the first call
\* left it
C28_ArenaTooSmall ==
    /\ Len(results) = 2
    /\ fdec.buf_size = 4
    /\ NameToken(results[2])
    /\ TokenFamily(results[2]) = 4
    /\ NameLength(results[2]) = 5
    /\ results[2].fd_from.entries_count = 1
    /\ results[2].fd_from.buf_off = 2
    /\ results[2].r = 0 - ENOSPC
    /\ fdec = results[1].fd
    /\ fdec.last_field = [name |-> 0, length |-> 2]

\* "ab", "c", then prefix 1 + "d" on a table of two entries with room in
\* the arena: OutOfSpace, and the decoder is as it was
C28_TableFull ==
    /\ Len(results) = 3
    /\ fdec.buf_size = 8
    /\ NameToken(results[3])
    /\ TokenFamily(results[3]) = 6
    /\ results[3].fd_from.entries_count = 2
    /\ results[3].fd_from.buf_off + NameLength(results[3]) <= 8
    /\ results[3].r = 0 - ENOSPC
    /\ fdec = results[2].fd

\* C29: yajbe_field_decode never returns, and never sets last_field to, an
\* entry at an index >= entries_count: an indexed token with such an index
\* is rejected with an error.
C29_IndexInRange ==
    \A i \in 1..Len(results) :
        (TokenOf(results[i], 5, 0)
            /\ TokenLength(results[i]) >= results[i].fd_from.entries_count)
        => /\ results[i].r < 0
           /\ results[i].field = None
           /\ results[i].fd.last_field = results[i].fd_from.last_field

\* index 3 as the first token: the call returns 0 and hands back entries[3]
\* of the caller's array, which no decode has written, and last_field is
\* set to what that slot holds
C29_UnwrittenEntry ==
    /\ Len(results) = 1
    /\ TokenHead(results[1]) = 163
    /\ results[1].fd_from.entries_count = 0
    /\ results[1].r = 0
    /\ results[1].field # None
    /\ results[1].field[1].name = WildName
    /\ fdec.last_field.name = WildName
    /\ fdec.entries_count = 0

\* the last field of the decoder fd is unset, or shorter than a prefix of p
\* or a suffix of s bytes
OutsideLast(fd, p, s) ==
    \/ fd.last_field.name = NullName
    \/ p > fd.last_field.length
    \/ s > fd.last_field.length

\* C30: for prefix and prefix+suffix tokens the decoder copies only bytes
\* inside last_field's name: a token whose prefix P or suffix S exceeds
\* last_field.length, or that arrives before any field was decoded, is
\* rejected with an error and adds no entry.
C30_CopiesInsideLast ==
    \A i \in 1..Len(results) :
        ((TokenOf(results[i], 6, 1) \/ TokenOf(results[i], 7, 2))
            /\ OutsideLast(results[i].fd_from, TokenPrefix(results[i]),
                           TokenSuffix(results[i])))
        => /\ results[i].r < 0
           /\ results[i].fd.entries_count = results[i].fd_from.entries_count

\* "c", then a token with prefix 3 and no bytes: the call returns 0 and
\* appends a name of three bytes, "c" and the two arena cells behind it,
\* which nothing has written
C30_PrefixPastName ==
    /\ Len(results) = 2
    /\ results[1].r = 0
    /\ results[1].fd.last_field = [name |-> 0, length |-> 1]
    /\ TokenOf(results[2], 6, 1)
    /\ TokenPrefix(results[2]) = 3
    /\ TokenLength(results[2]) = 0
    /\ results[2].r = 0
    /\ fdec.entries_count = 2
    /\ results[2].v = Some([name |-> 1, length |-> 3, bytes |-> <<99, Undef, Undef>>])

\* a prefix token as the first token: memcpy from the null last_field.name,
\* return code 0 and one entry
C30_BeforeAnyField ==
    /\ Len(results) = 1
    /\ TokenOf(results[1], 6, 1)
    /\ results[1].fd_from.last_field.name = NullName
    /\ TokenPrefix(results[1]) = 1
    /\ results[1].r = 0
    /\ fdec.entries_count = 1
====
